---------------------------- MODULE Spec2Model ----------------------------
(***************************************************************************)
(* A model of the AI scheduling agent: the chat session of app.py, the     *)
(* Scheduler, the PatientLookup, the notification stubs, the AdminExporter *)
(* and the four-stage pipeline of utils/agents.py.                         *)
(*                                                                         *)
(* Text is modelled as a sequence of one-character strings, so that        *)
(* split(","), strip(), lower(), int() and strptime()/str() are computed   *)
(* the way Python computes them rather than assumed.                       *)
(***************************************************************************)
EXTENDS Integers, Sequences, FiniteSets, TLC

VARIABLES
    \* ---- st.session_state (app.py:63-70)
    step,          \* st.session_state.step
    patient,       \* st.session_state.patient (a dict: a function on its keys)
    messages,      \* st.session_state.messages (the transcript)
    slots_view,    \* st.session_state["slots_view"] (None until listed)
    use_langgraph, \* st.session_state.use_langgraph
    \* ---- the files
    file,          \* Data/doctor_schedule.xlsx, as last written
    roster,        \* Data/patients.csv
    form_exists,   \* whether Forms/New Patient Intake Form.pdf exists
    api_key,       \* whether OPENAI_API_KEY is set in the environment
    exported,      \* Output/confirmed_appointments.xlsx (rows)
    reminder_log,  \* Output/reminders_log.txt (lines)
    email_log,     \* Output/email_log.txt (lines)
    sms_log,       \* Output/sms_log.txt (lines)
    \* ---- a Scheduler object and the last call made on it
    df,            \* Scheduler.df
    ret,           \* the last call on the Scheduler / PatientLookup and its result
    hist,          \* what has been observed of earlier calls (history)
    \* ---- the pipeline (utils/agents.py)
    llm,           \* whether get_llm_provider() found a language model
    state,         \* the AgentState of the running pipeline
    node,          \* the graph node about to run
    \* ---- a second browser session / script run on the same files
    parked         \* its session state and its Scheduler, while the other runs

sessionVars == <<step, patient, messages, slots_view, use_langgraph>>
fileVars    == <<file, roster, form_exists, api_key, exported, reminder_log, email_log, sms_log>>
callVars    == <<df, ret, hist>>
pipeVars    == <<llm, state, node>>
vars        == <<sessionVars, fileVars, callVars, pipeVars, parked>>

(***************************************************************************)
(* Python values                                                           *)
(***************************************************************************)
\* Python's None. A text never has an element longer than one character, so
\* None differs from every text and can be compared with one.
None == <<"<None>">>

Min(a, b) == IF a < b THEN a ELSE b
Max(a, b) == IF a > b THEN a ELSE b

\* dict: d[k] = v, d.get(k, default), k in d
Put(d, k, v)  == [x \in (DOMAIN d) \cup {k} |-> IF x = k THEN v ELSE d[x]]
Get(d, k, dflt) == IF k \in DOMAIN d THEN d[k] ELSE dflt
EmptyDict == [x \in {} |-> None]

\* Python truthiness of an optional text: None and "" are false
Truthy(v) == v # None /\ v # <<>>

(***************************************************************************)
(* str methods                                                             *)
(***************************************************************************)
UpperLetters == <<"A","B","C","D","E","F","G","H","I","J","K","L","M",
                  "N","O","P","Q","R","S","T","U","V","W","X","Y","Z">>
LowerLetters == <<"a","b","c","d","e","f","g","h","i","j","k","l","m",
                  "n","o","p","q","r","s","t","u","v","w","x","y","z">>
DigitChars   == <<"0","1","2","3","4","5","6","7","8","9">>

IsUpper(c) == \E i \in 1..26 : UpperLetters[i] = c
IsDigit(c) == \E i \in 1..10 : DigitChars[i] = c
IsSpace(c) == c \in {" ", "\t", "\n", "\r"}
DigitVal(c) == (CHOOSE i \in 1..10 : DigitChars[i] = c) - 1

LowerChar(c) == IF IsUpper(c)
                THEN LowerLetters[CHOOSE i \in 1..26 : UpperLetters[i] = c]
                ELSE c

\* s.lower()
Lower(s) == [i \in 1..Len(s) |-> LowerChar(s[i])]

RECURSIVE LStrip(_)
LStrip(s) == IF s # <<>> /\ IsSpace(Head(s)) THEN LStrip(Tail(s)) ELSE s

RECURSIVE RStrip(_)
RStrip(s) == IF s # <<>> /\ IsSpace(s[Len(s)])
             THEN RStrip(SubSeq(s, 1, Len(s) - 1)) ELSE s

\* s.strip()
Strip(s) == RStrip(LStrip(s))

\* s.split(sep) for a one-character sep: always at least one field
RECURSIVE SplitFrom(_, _, _, _)
SplitFrom(s, sep, i, cur) ==
    IF i > Len(s) THEN <<cur>>
    ELSE IF s[i] = sep THEN <<cur>> \o SplitFrom(s, sep, i + 1, <<>>)
    ELSE SplitFrom(s, sep, i + 1, Append(cur, s[i]))
Split(s, sep) == SplitFrom(s, sep, 1, <<>>)

\* s.split(sep, 1): at most one split, at the first sep
FirstIndex(s, c) == IF \E i \in 1..Len(s) : s[i] = c
                    THEN CHOOSE i \in 1..Len(s) : s[i] = c /\ \A j \in 1..(i-1) : s[j] # c
                    ELSE 0
Split1(s, sep) == IF FirstIndex(s, sep) = 0 THEN <<s>>
                  ELSE <<SubSeq(s, 1, FirstIndex(s, sep) - 1),
                         SubSeq(s, FirstIndex(s, sep) + 1, Len(s))>>

\* sep.join(parts)
RECURSIVE Join(_, _)
Join(sep, parts) == IF parts = <<>> THEN <<>>
                    ELSE IF Len(parts) = 1 THEN parts[1]
                    ELSE parts[1] \o sep \o Join(sep, Tail(parts))

\* [p.strip() for p in parts]
StripAll(parts) == [i \in 1..Len(parts) |-> Strip(parts[i])]

AllDigits(s) == s # <<>> /\ \A i \in 1..Len(s) : IsDigit(s[i])

RECURSIVE DigitsVal(_)
DigitsVal(s) == IF s = <<>> THEN 0
                ELSE 10 * DigitsVal(SubSeq(s, 1, Len(s) - 1)) + DigitVal(s[Len(s)])

\* int(s): surrounding whitespace and one sign are accepted. IntOk is "no
\* ValueError", IntVal the value. (The inputs of this model hold no "_" digit
\* separators.)
Unsigned(s) == IF s # <<>> /\ s[1] \in {"+", "-"} THEN Tail(s) ELSE s
IntOk(s)  == AllDigits(Unsigned(Strip(s)))
IntVal(s) == LET t == Strip(s) IN
             IF t[1] = "-" THEN 0 - DigitsVal(Unsigned(t)) ELSE DigitsVal(Unsigned(t))

(***************************************************************************)
(* datetime.strptime(s, "%Y-%m-%d").date() and str(date)                   *)
(***************************************************************************)
IsLeap(y) == (y % 4 = 0 /\ y % 100 # 0) \/ y % 400 = 0
DaysIn(y, m) == IF m = 2 THEN (IF IsLeap(y) THEN 29 ELSE 28)
                ELSE IF m \in {4, 6, 9, 11} THEN 30 ELSE 31

\* %Y is \d\d\d\d; %m is 1[0-2]|0[1-9]|[1-9]; %d is 3[01]|[12]\d|0[1-9]|[1-9]| [1-9]
YearField(s)  == Len(s) = 4 /\ AllDigits(s)
MonthField(s) == AllDigits(s) /\ Len(s) \in {1, 2} /\ DigitsVal(s) \in 1..12
DayField(s)   == \/ AllDigits(s) /\ Len(s) \in {1, 2} /\ DigitsVal(s) \in 1..31
                 \/ Len(s) = 2 /\ s[1] = " " /\ IsDigit(s[2]) /\ s[2] # "0"
DayVal(s)     == IF s[1] = " " THEN DigitVal(s[2]) ELSE DigitsVal(s)

\* StrptimeOk is "no ValueError"; Strptime the date <<year, month, day>>
DateFields(s) == Split(s, "-")
StrptimeOk(s) ==
    LET f == DateFields(s) IN
    /\ Len(f) = 3
    /\ YearField(f[1]) /\ MonthField(f[2]) /\ DayField(f[3])
    /\ DigitsVal(f[1]) >= 1
    /\ DayVal(f[3]) <= DaysIn(DigitsVal(f[1]), DigitsVal(f[2]))
Strptime(s) == LET f == DateFields(s) IN <<DigitsVal(f[1]), DigitsVal(f[2]), DayVal(f[3])>>

Digit(n) == DigitChars[n + 1]
Pad2(n)  == <<Digit(n \div 10), Digit(n % 10)>>
Pad4(n)  == <<Digit(n \div 1000), Digit((n \div 100) % 10), Digit((n \div 10) % 10), Digit(n % 10)>>
\* str(date): zero-padded ISO form
DateStr(d) == Pad4(d[1]) \o <<"-">> \o Pad2(d[2]) \o <<"-">> \o Pad2(d[3])

\* len(s), as a decimal text (for f-strings)
RECURSIVE IntStr(_)
IntStr(n) == IF n < 10 THEN <<Digit(n)>> ELSE IntStr(n \div 10) \o <<Digit(n % 10)>>


(***************************************************************************)
(* Bounds of the model                                                     *)
(***************************************************************************)
MaxRows  == 3   \* rows of a schedule table
MaxLen   == 2   \* rows of the generated tables direct calls are tried on
MaxLimit == 2   \* the largest limit passed to get_available_slots directly
MaxBooks == 2   \* book_slot_by_row_index calls made directly on one Scheduler

(***************************************************************************)
(* The schedule table (a pandas DataFrame)                                 *)
(*                                                                         *)
(* A frame is [columns, boolcols, rows]: the column names in order, the    *)
(* columns of dtype bool, and the rows, each a function from column name   *)
(* to the text of the cell (str(value)). The index is the RangeIndex       *)
(* 0..n-1 that read_excel gives: row label i is rows[i + 1].               *)
(***************************************************************************)
s_available == <<"a","v","a","i","l","a","b","l","e">>
s_yes       == <<"y","e","s">>
s_true      == <<"t","r","u","e">>
s_1         == <<"1">>
s_Booked    == <<"B","o","o","k","e","d">>
s_No        == <<"N","o">>
s_False     == <<"F","a","l","s","e">>

Cols(f) == {f.columns[i] : i \in 1..Len(f.columns)}
Index(f) == 0..(Len(f.rows) - 1)
Loc(f, label) == f.rows[label + 1]

\* the availability mask of one row (scheduler.py:24-30)
AvailableValues == {s_yes, s_true, s_1, s_available}
Mask(f, cells) ==
    IF "Status" \in Cols(f) THEN Lower(Strip(cells["Status"])) = s_available
    ELSE IF "Available" \in Cols(f) THEN Lower(Strip(cells["Available"])) \in AvailableValues
    ELSE TRUE

\* find_col: the first candidate that is a column, "" when there is none
RECURSIVE find_col(_, _)
find_col(cols, candidates) ==
    IF candidates = <<>> THEN ""
    ELSE IF Head(candidates) \in cols THEN Head(candidates)
    ELSE find_col(cols, Tail(candidates))

DoctorCandidates   == <<"DoctorName", "Doctor", "Provider", "Physician", "Doctor Name">>
LocationCandidates == <<"Location", "Clinic", "Branch", "Site", "Office">>

\* C7 mutant: the filter is never applied
FilterBy_Ignored(f, rows, candidates, v) == rows

\* filtered[filtered[col].astype(str).str.strip().str.lower() == str(v).strip().lower()]
\* guarded by "if v:" and "if col:" (scheduler.py:42-59)
FilterBy(f, rows, candidates, v) ==
    LET col == find_col(Cols(f), candidates) IN
    IF Truthy(v) /\ col # ""
    THEN SelectSeq(rows, LAMBDA r : Lower(Strip(r.row[col])) = Lower(Strip(v)))
    ELSE rows

\* C6 mutant: head() returns every row
HeadRows_All(rows, n) == rows

\* DataFrame.head(n): the first n rows; for n < 0 all but the last -n
HeadRows(rows, n) == IF n >= 0 THEN SubSeq(rows, 1, Min(n, Len(rows)))
                     ELSE SubSeq(rows, 1, Max(Len(rows) + n, 0))

\* the rows of a frame with their index labels
Labelled(f) == [i \in 1..Len(f.rows) |-> [name |-> i - 1, row |-> f.rows[i]]]

\* Scheduler.get_available_slots: the rows returned, each with its label
get_available_slots(f, limit, doctor, location) ==
    LET filtered == SelectSeq(Labelled(f), LAMBDA r : Mask(f, r.row))
        byDoctor == FilterBy(f, filtered, DoctorCandidates, doctor)
        byLoc    == FilterBy(f, byDoctor, LocationCandidates, location)
    IN  HeadRows(byLoc, limit)

\* the cell book_slot_by_row_index writes (scheduler.py:68-74)
\* C31 mutant: the value is assigned to the whole column
SetCell_WholeColumn(f, label, col, v) ==
    [f EXCEPT !.rows = [i \in 1..Len(@) |-> [@[i] EXCEPT ![col] = v]]]

SetCell(f, label, col, v) ==
    [f EXCEPT !.rows[label + 1] = [@ EXCEPT ![col] = v]]

\* C4 mutant: the booking leaves the table as it was
BookedFrame_NoWrite(f, row_index) == f

\* C30 mutant: no test of the row identifier, so that the assignment through
\* .loc adds a row under the unknown label
BookedFrame_Enlarging(f, row_index) ==
    IF row_index \notin Index(f)
    THEN [f EXCEPT !.rows = Append(@, [c \in Cols(f) |-> <<>>])]
    ELSE IF "Status" \in Cols(f) THEN SetCell(f, row_index, "Status", s_Booked)
    ELSE IF "Available" \in Cols(f)
         THEN IF "Available" \in f.boolcols
              THEN SetCell(f, row_index, "Available", s_False)
              ELSE SetCell(f, row_index, "Available", s_No)
    ELSE f

\* Scheduler.df after book_slot_by_row_index(row_index)
BookedFrame(f, row_index) ==
    IF row_index \notin Index(f) THEN f
    ELSE IF "Status" \in Cols(f) THEN SetCell(f, row_index, "Status", s_Booked)
    ELSE IF "Available" \in Cols(f)
         THEN IF "Available" \in f.boolcols
              THEN SetCell(f, row_index, "Available", s_False)
              ELSE SetCell(f, row_index, "Available", s_No)
    ELSE f

\* what book_slot_by_row_index returns: None, or the row as a dict
NoRow == [ok |-> FALSE, name |-> -1, row |-> EmptyDict]

\* C14 mutant: a row that is not available any more is refused
BookedRow_Checked(f, row_index) ==
    IF row_index \in Index(f) /\ Mask(f, Loc(f, row_index))
    THEN [ok |-> TRUE, name |-> row_index, row |-> Loc(BookedFrame(f, row_index), row_index)]
    ELSE NoRow

BookedRow(f, row_index) ==
    IF row_index \notin Index(f) THEN NoRow
    ELSE [ok |-> TRUE, name |-> row_index, row |-> Loc(BookedFrame(f, row_index), row_index)]

\* Scheduler.save / Scheduler.__init__: to_excel(index=False) and read_excel
\* keep the columns, the cell values and the row order; the index is rebuilt
\* as 0..n-1, which is what the rows' positions already are.
Save(f) == f
Load(x) == x

(***************************************************************************)
(* Schedule tables the model starts from                                   *)
(*                                                                         *)
(* Three column layouts of the schedule file (spec section 6: a doctor     *)
(* column under one of its names, Status or Available, Location optional): *)
(* Status texts; Available as text without a location column; Available as *)
(* a bool column. Cells vary in case and surrounding blanks.               *)
(***************************************************************************)
s_DrA       == <<"D","r"," ","A">>
s_dra       == <<" ","d","r"," ","a"," ">>
s_DrB       == <<"D","r"," ","B">>
s_Zed       == <<"Z","e","d">>
s_N         == <<"N">>
s_n         == <<"n"," ">>
s_S         == <<"S">>
s_Available == <<"A","v","a","i","l","a","b","l","e">>
s_AVAILABLE == <<" ","A","V","A","I","L","A","B","L","E"," ">>
s_Yes       == <<"Y","e","s">>
s_TRUE      == <<" ","T","R","U","E">>
s_True      == <<"T","r","u","e">>
s_d1        == <<"d","1">>
s_d2        == <<"d","2">>
s_d3        == <<"d","3">>
s_d4        == <<"d","4">>
s_9am       == <<"9","a","m">>
s_2pm       == <<"2","p","m">>

ColumnsA == <<"DoctorName", "Date", "TimeSlot", "Status", "Location">>
ColumnsB == <<"Doctor", "Date", "Time", "Available">>
ColumnsC == <<"Provider", "Day", "Slot", "Available", "Clinic">>

\* a row: the cells in column order
Row(columns, cells) ==
    [c \in {columns[i] : i \in 1..Len(columns)} |->
        cells[CHOOSE i \in 1..Len(columns) : columns[i] = c]]

A1 == Row(ColumnsA, <<s_DrA, s_d1, s_9am, s_Available, s_N>>)
A2 == Row(ColumnsA, <<s_dra, s_d2, s_2pm, s_AVAILABLE, s_n>>)
A3 == Row(ColumnsA, <<s_DrB, s_d3, s_9am, s_Available, s_S>>)
A4 == Row(ColumnsA, <<s_DrA, s_d4, s_2pm, s_Booked,    s_S>>)
B1 == Row(ColumnsB, <<s_DrA, s_d1, s_9am, s_Yes>>)
B2 == Row(ColumnsB, <<s_dra, s_d2, s_2pm, s_TRUE>>)
B3 == Row(ColumnsB, <<s_DrB, s_d3, s_9am, s_1>>)
B4 == Row(ColumnsB, <<s_DrA, s_d4, s_2pm, s_No>>)
C1 == Row(ColumnsC, <<s_DrA, s_d1, s_9am, s_True,  s_N>>)
C2 == Row(ColumnsC, <<s_dra, s_d2, s_2pm, s_True,  s_n>>)
C3 == Row(ColumnsC, <<s_DrB, s_d3, s_9am, s_True,  s_S>>)
C4 == Row(ColumnsC, <<s_DrA, s_d4, s_2pm, s_False, s_S>>)
PoolA == {A1, A2, A4}

Frame(columns, boolcols, rows) == [columns |-> columns, boolcols |-> boolcols, rows |-> rows]

\* the Status tables of up to MaxLen distinct rows of the pool, in every order
Injective(q) == \A i, j \in DOMAIN q : q[i] = q[j] => i = j
RowSeqs(pool) == UNION { {q \in [1..n -> pool] : Injective(q)} : n \in 0..MaxLen }
Frames(columns, boolcols, pool) ==
    { Frame(columns, boolcols, q) : q \in RowSeqs(pool) }

\* schedule files a chat session or a pipeline run starts from
TableA == Frame(ColumnsA, {}, <<A1, A4, A3>>)
TableB == Frame(ColumnsB, {}, <<B2, B3>>)
TableC == Frame(ColumnsC, {"Available"}, <<C1>>)
TableFull == Frame(ColumnsA, {}, <<A4>>)

\* the tables direct calls are tried on: every short Status table, and tables
\* of the two Available layouts
Tables == Frames(ColumnsA, {}, PoolA)
            \cup { TableA, TableB, TableC, TableFull,
                   Frame(ColumnsB, {}, <<B4, B1>>),
                   Frame(ColumnsC, {"Available"}, <<C4, C2, C3>>) }

HasAvailable(f) == \E i \in 1..Len(f.rows) : Mask(f, f.rows[i])

(***************************************************************************)
(* Calls made directly on one Scheduler                                    *)
(***************************************************************************)
Labels == 0..(MaxRows - 1)

\* no call made yet
NoCall == [op |-> "none", args |-> <<>>, rows |-> <<>>, row |-> NoRow, text |-> None]

\* history: per row label, the book_slot_by_row_index calls that returned a
\* row, and the times the row's availability went from available to not; the
\* find_patient call before the last one; how far the session has followed
\* the scripted conversation (-1: it has left it); whether the last input
\* was malformed for the step it was typed in; whether the schedule had an
\* available slot when the pipeline run began, and whether a file write of
\* the run or turn has failed; the position typed in the last turn when it
\* was a number within the snapshot of a confirmation step (0 otherwise), and
\* whether the available rows of the file then differed from the snapshot;
\* the append_appointment calls that have returned
NoHist == [books |-> [l \in Labels |-> 0], flips |-> [l \in Labels |-> 0],
           prev |-> NoCall, script |-> -1, malformed |-> FALSE,
           avail |-> FALSE, faulted |-> FALSE,
           choice |-> 0, drift |-> FALSE, appends |-> 0, typed |-> <<>>, answers |-> <<>>, failed |-> 0]

Sum(f) == LET RECURSIVE S(_)
              S(D) == IF D = {} THEN 0
                      ELSE LET x == CHOOSE x \in D : TRUE IN f[x] + S(D \ {x})
          IN S(DOMAIN f)

\* the (doctor, location) filters passed: none, an empty text, a doctor
\* written in another case, a doctor of no row, a location
Filters == { <<None, None>>, <<<<>>, None>>, <<s_dra, None>>, <<s_Zed, None>>,
             <<None, s_n>>, <<s_dra, s_n>> }

\* slots = scheduler.get_available_slots(limit, doctor, location)
GetAvailableSlots(limit, doctor, location) ==
    /\ ret' = [NoCall EXCEPT !.op = "get_available_slots",
                             !.args = <<limit, doctor, location>>,
                             !.rows = get_available_slots(df, limit, doctor, location)]
    /\ UNCHANGED <<df, hist, sessionVars, parked, fileVars, pipeVars>>

\* C15 mutant: the booking writes only the booked row's cell to the file
BookSlotByRowIndex_CellOnly(row_index) ==
    LET after == BookedFrame(df, row_index)
        got   == BookedRow(df, row_index)
    IN
    /\ Sum(hist.books) < MaxBooks
    /\ df' = after
    /\ file' = IF row_index \in Index(df) THEN Save(BookedFrame(file, row_index)) ELSE file
    /\ ret' = [NoCall EXCEPT !.op = "book_slot_by_row_index",
                             !.args = <<row_index>>, !.row = got]
    /\ hist' = IF got.ok THEN [hist EXCEPT !.books[row_index] = @ + 1] ELSE hist
    /\ UNCHANGED <<sessionVars, parked, roster, form_exists, api_key, exported,
                   reminder_log, email_log, sms_log, pipeVars>>

\* chosen = scheduler.book_slot_by_row_index(row_index)
BookSlotByRowIndex(row_index) ==
    LET after == BookedFrame(df, row_index)
        got   == BookedRow(df, row_index)
        wasAvailable == row_index \in Index(df) /\ Mask(df, Loc(df, row_index))
        isAvailable  == row_index \in Index(df) /\ Mask(after, Loc(after, row_index))
    IN
    /\ Sum(hist.books) < MaxBooks
    /\ df' = after
    /\ file' = IF row_index \in Index(df) THEN Save(after) ELSE file
    /\ ret' = [NoCall EXCEPT !.op = "book_slot_by_row_index",
                             !.args = <<row_index>>, !.row = got]
    /\ hist' = IF got.ok
               THEN [hist EXCEPT !.books[row_index] = @ + 1,
                                 !.flips[row_index] =
                                     IF wasAvailable /\ ~isAvailable THEN @ + 1 ELSE @]
               ELSE hist
    /\ UNCHANGED <<sessionVars, parked, roster, form_exists, api_key, exported, reminder_log,
                   email_log, sms_log, pipeVars>>

(***************************************************************************)
(* PatientLookup (utils/patient_lookup.py)                                 *)
(*                                                                         *)
(* The roster file is [readable, columns, rows]: whether read_csv succeeds,*)
(* the set of column names, and the rows (dtype=str, NaN filled with "").  *)
(***************************************************************************)
MaxRoster == 2   \* rows of a roster file

s_Name      == <<"N","a","m","e">>
s_DOB       == <<"D","O","B">>
s_Insurance == <<"I","n","s","u","r","a","n","c","e">>
s_MemberID  == <<"M","e","m","b","e","r"," ","I","D">>
s_Group     == <<"G","r","o","u","p">>
s_Status    == <<"S","t","a","t","u","s">>

\* add_if_present(col, label): "<label>: <value>" unless the column is missing
\* or the stripped value is empty
add_if_present(r, row, col, label) ==
    IF col \in r.columns /\ Strip(row[col]) # <<>>
    THEN << label \o <<":", " ">> \o Strip(row[col]) >>
    ELSE <<>>

\* the summary of the matched row (patient_lookup.py:54-69)
Summary(r, row) ==
    Join(<<",", " ">>,
         add_if_present(r, row, "Name", s_Name)
         \o add_if_present(r, row, "DOB", s_DOB)
         \o add_if_present(r, row, "InsuranceCarrier", s_Insurance)
         \o add_if_present(r, row, "MemberID", s_MemberID)
         \o add_if_present(r, row, "GroupNumber", s_Group)
         \o add_if_present(r, row, "Status", s_Status))

\* C8 mutant: the name is compared as typed, case kept
Matches_CaseKept(r, name, dob) ==
    SelectSeq(r.rows, LAMBDA row : /\ Strip(row["Name"]) = Strip(name)
                                   /\ Strip(row["DOB"]) = Strip(dob))

\* the rows the mask selects (patient_lookup.py:40-47)
Matches(r, name, dob) ==
    SelectSeq(r.rows, LAMBDA row : /\ Lower(Strip(row["Name"])) = Lower(Strip(name))
                                   /\ Strip(row["DOB"]) = Strip(dob))

\* PatientLookup.find_patient: the summary, or None (also when read_csv raises)
find_patient(r, name, dob) ==
    IF ~r.readable THEN None
    ELSE IF "Name" \notin r.columns \/ "DOB" \notin r.columns THEN None
    ELSE IF Matches(r, name, dob) = <<>> THEN None
    ELSE Summary(r, Matches(r, name, dob)[1])

(***************************************************************************)
(* Roster files the model starts from                                      *)
(***************************************************************************)
s_Al        == <<"A","l">>
s_AL        == <<" ","A","L"," ">>
s_al        == <<"a","l">>
s_Bo        == <<"B","o">>
s_dob1      == <<"1","9","9","0","-","0","5","-","1","4">>
s_dob1b     == <<" ","1","9","9","0","-","0","5","-","1","4"," ">>
s_dob1short == <<"1","9","9","0","-","5","-","1","4">>
s_dob2      == <<"2","0","0","1","-","0","2","-","0","3">>
s_Cigna     == <<"C","i","g","n","a">>
s_Aetna     == <<"A","e","t","n","a">>
s_M1        == <<"M","1">>
s_M2        == <<"M","2">>
s_G1        == <<"G","1">>
s_Returning == <<"R","e","t","u","r","n","i","n","g">>
s_New       == <<"N","e","w">>

RosterColumns == <<"Name", "DOB", "InsuranceCarrier", "MemberID", "GroupNumber", "Status">>

\* two rows of one identity (equal after trimming and lower-casing), a second
\* patient, and a row whose date is the same day written without padding
RosterPool == { Row(RosterColumns, <<s_Al, s_dob1,      s_Cigna, s_M1, s_G1, s_Returning>>),
                Row(RosterColumns, <<s_AL, s_dob1b,     s_Aetna, s_M2, <<>>, <<>>      >>),
                Row(RosterColumns, <<s_Bo, s_dob2,      s_Cigna, s_M2, s_G1, <<>>      >>),
                Row(RosterColumns, <<s_al, s_dob1short, <<>>,    <<>>, <<>>, <<>>      >>) }

Restrict(row, cols) == [c \in cols |-> row[c]]
RosterSeqs == UNION { {q \in [1..n -> RosterPool] : Injective(q)} : n \in 0..MaxRoster }
RosterWith(cols, readable) ==
    { [readable |-> readable, columns |-> cols,
       rows |-> [i \in 1..Len(q) |-> Restrict(q[i], cols)]] : q \in RosterSeqs }
AllColumns == {RosterColumns[i] : i \in 1..Len(RosterColumns)}
Rosters == RosterWith(AllColumns, TRUE)
             \cup RosterWith({"Name", "DOB"}, TRUE)
             \cup RosterWith({"DOB", "Status"}, TRUE)
             \cup RosterWith(AllColumns, FALSE)

\* a roster with one known patient, and one without any
EmptyRoster == [readable |-> TRUE, columns |-> AllColumns, rows |-> <<>>]
DefaultRoster == [readable |-> TRUE, columns |-> AllColumns,
                  rows |-> << Row(RosterColumns, <<s_Al, s_dob1, s_Cigna, s_M1, s_G1, s_Returning>>) >>]

(***************************************************************************)
(* The chat session (app.py)                                               *)
(*                                                                         *)
(* A transcript entry is [role, content]; a content is [kind, args]: the   *)
(* f-string that produced it and the values put into it. The text of a     *)
(* user entry is the prompt of its turn, an input of the handler.          *)
(***************************************************************************)
MaxTurns == 7   \* user inputs of one session

\* limit=5 of get_available_slots; 60 if Status == "New" else 30
DefaultLimit == 5
DurationNew == 60
DurationReturning == 30

Text(kind, args) == [kind |-> kind, args |-> args]
Assistant(kind, args) == [role |-> "assistant", content |-> Text(kind, args)]
User == [role |-> "user", content |-> Text("input", <<>>)]

\* the messages that re-prompt a step (the ones starting with the cross mark)
ErrorKinds == {"error_lookup", "error_preferences", "error_insurance",
               "error_contact", "error_confirmation", "error_reminders"}
IsError(m) == m.role = "assistant" /\ m.content.kind \in ErrorKinds

Turns == Len(SelectSeq(messages, LAMBDA m : m.role = "user"))

Steps == <<"greeting", "lookup", "preferences", "insurance", "contact",
           "scheduling", "confirmation", "reminders_action", "done">>

\* the greeting shown on first load (app.py:72-79)
Greeting == Assistant("greeting", <<>>)

\* the manual chain of step handlers runs unless the pipeline path ran and
\* ended the script run with st.experimental_rerun() (app.py:96-122)
ManualChain == ~(use_langgraph /\ api_key)

\* Every turn reruns the script, so scheduler = Scheduler(...) reloads the file
\* (app.py:18) before the user message is appended (app.py:90).
s_any == <<"a","n","y">>

(* What the user types. Each input is offered to every step. *)
in_al      == <<"A","l",","," ","1","9","9","0","-","5","-","1","4">>
in_baddate == <<"B","o",","," ","1","9","9","0","-","0","2","-","3","0">>
in_any     == <<"a","n","y">>
in_prefs   == <<"d","r"," ","a",","," ","N">>
in_ins     == <<"C","i","g","n","a",","," ","M","1",","," ","G","1">>
in_1       == <<"1">>
in_2       == <<" ","2">>
in_0       == <<"0">>
in_neg     == <<"-","1">>
in_forms   == <<"f","o","r","m","s","=","y","e","s",","," ","c","o","n","f","i","r","m","=","y","e","s",","," ","r","e","a","s","o","n","=","N","A">>
in_reason  == <<"R","e","a","s","o","n"," ","="," ","i","l","l",",","x","=","y",",","c","o","n","f","i","r","m","=","n","o",",","f","o","r","m","s","=","n">>
Inputs == {in_al, in_baddate, in_any, in_prefs, in_ins, in_1, in_2, in_0,
           in_neg, in_forms, in_reason}

\* History: the scripted conversation of the happy path. Fits(k, p): p may be
\* the k-th input of the script.
Fits(k, p) ==
    CASE k = 1 -> Len(Split(p, ",")) = 2 /\ StrptimeOk(Strip(Split(p, ",")[2]))
      [] k = 2 -> p = in_any
      [] k = 3 -> Len(Split(p, ",")) = 3
      [] k = 4 -> Len(Split(p, ",")) = 2
      [] k = 5 -> TRUE
      [] k = 6 -> p = in_1
      [] k = 7 -> p = in_forms
      [] OTHER -> FALSE
\* History: the input does not have the shape the handler of the step tests
\* for before it stores anything (app.py:136-143, 177-183, 202, 231, 280-283).
Malformed(p) ==
    CASE step \in {"greeting", "lookup"} ->
             ~(Len(Split(p, ",")) = 2 /\ StrptimeOk(Strip(Split(p, ",")[2])))
      [] step = "preferences" -> ~(Lower(Strip(p)) = in_any \/ Len(Split(p, ",")) = 2)
      [] step = "insurance"   -> Len(Split(p, ",")) # 3
      [] step = "contact"     -> Len(Split(p, ",")) # 2
      [] step = "confirmation" ->
             ~(IntOk(p) /\ ~slots_view.none /\ IntVal(p) \in 1..Len(slots_view.rows))
      [] OTHER -> FALSE
\* History: the answers of a reminders input as the prompt defines them: the
\* value of a key is what follows the first "=" of the last comma-separated
\* part whose text before that "=" is the key (any case, blanks trimmed).
IsYes(v) == Lower(v) \in {<<"y","e","s">>, <<"y">>, <<"t","r","u","e">>}
Answer(p, key, dflt) ==
    LET parts == Split(p, ",")
        at    == {i \in 1..Len(parts) : /\ FirstIndex(parts[i], "=") # 0
                                         /\ Lower(Strip(Split1(parts[i], "=")[1])) = key}
    IN  IF at = {} THEN dflt
        ELSE Strip(Split1(parts[CHOOSE i \in at : \A j \in at : j <= i], "=")[2])
Answers(p) == << IsYes(Answer(p, <<"f","o","r","m","s">>, <<>>)),
                 IsYes(Answer(p, <<"c","o","n","f","i","r","m">>, <<>>)),
                 Answer(p, <<"r","e","a","s","o","n">>, <<"N","A">>) >>
Follow(p, fault) ==
    LET chose == step = "confirmation" /\ ~Malformed(p) IN
    [hist EXCEPT !.script = IF @ >= 0 /\ fault = 0 /\ Fits(@ + 1, p) THEN @ + 1 ELSE -1,
                 !.malformed = Malformed(p),
                 !.faulted = FALSE,
                 !.failed = 0,
                 !.typed = IF step \in {"greeting", "lookup"} /\ ~Malformed(p) THEN p ELSE <<>>,
                 !.answers = IF step = "reminders_action" THEN Answers(p) ELSE <<>>,
                 !.choice = IF chose THEN IntVal(p) ELSE 0,
                 !.drift = chose /\ slots_view.rows #
                              get_available_slots(Load(file), DefaultLimit,
                                                  Get(patient, "PreferredDoctor", None),
                                                  Get(patient, "PreferredLocation", None))]

\* Step 1 and 2: greeting falls through to the lookup handler (app.py:125-172)
\* C21 mutant: every patient is taken for a new one
StatusOf_New(response) == s_New

\* "Returning" when find_patient gave a summary, else "New"
StatusOf(response) == IF Truthy(response) THEN s_Returning ELSE s_New

\* C36 mutant: the greeting step takes the first input for itself
Lookup_GreetingConsumes(p) ==
    LET parts == Split(p, ",")
        ok    == Len(parts) = 2 /\ StrptimeOk(Strip(parts[2]))
        name  == Strip(parts[1])
        dob   == DateStr(Strptime(Strip(parts[2])))
        response == find_patient(roster, name, dob)
    IN
    /\ ManualChain
    /\ step = "lookup" \/ (step = "greeting" /\ ~use_langgraph)
    /\ Turns < MaxTurns
    /\ hist' = Follow(p, 0)
    /\ df' = Load(file)
    /\ IF step = "greeting"
       THEN /\ messages' = Append(messages, User)
            /\ patient' = patient
            /\ step' = "lookup"
       ELSE IF ok
       THEN /\ messages' = messages \o
                  << User,
                     IF Truthy(response) THEN Assistant("found_returning", <<response>>)
                                         ELSE Assistant("new_patient", <<name>>),
                     Assistant("ask_preferences", <<>>) >>
            /\ patient' = Put(Put(Put(patient, "Name", name), "DOB", dob), "Status",
                              StatusOf(response))
            /\ step' = "preferences"
       ELSE /\ messages' = messages \o << User, Assistant("error_lookup", <<>>) >>
            /\ patient' = patient
            /\ step' = "lookup"
    /\ UNCHANGED <<slots_view, use_langgraph, parked, fileVars, ret, pipeVars>>

Lookup(p) ==
    LET parts == Split(p, ",")
        ok    == Len(parts) = 2 /\ StrptimeOk(Strip(parts[2]))
        name  == Strip(parts[1])
        dob   == DateStr(Strptime(Strip(parts[2])))
        response == find_patient(roster, name, dob)
    IN
    /\ ManualChain
    /\ step = "lookup" \/ (step = "greeting" /\ ~use_langgraph)
    /\ Turns < MaxTurns
    /\ hist' = Follow(p, 0)
    /\ df' = Load(file)
    /\ IF ok
       THEN /\ messages' = messages \o
                  << User,
                     IF Truthy(response) THEN Assistant("found_returning", <<response>>)
                                         ELSE Assistant("new_patient", <<name>>),
                     Assistant("ask_preferences", <<>>) >>
            /\ patient' = Put(Put(Put(patient, "Name", name), "DOB", dob), "Status",
                              StatusOf(response))
            /\ step' = "preferences"
       ELSE /\ messages' = messages \o << User, Assistant("error_lookup", <<>>) >>
            /\ patient' = patient
            /\ step' = "lookup"
    /\ UNCHANGED <<slots_view, use_langgraph, parked, fileVars, ret, pipeVars>>

\* C20 mutant: the preferences handler starts the transcript over
Preferences_Rewriting(p) ==
    LET parts == Split(p, ",")
        any   == Lower(Strip(p)) = s_any
    IN
    /\ ManualChain
    /\ step = "preferences"
    /\ Turns < MaxTurns
    /\ hist' = Follow(p, 0)
    /\ df' = Load(file)
    /\ IF any \/ Len(parts) = 2
       THEN /\ patient' = IF any
                          THEN Put(Put(patient, "PreferredDoctor", None),
                                   "PreferredLocation", None)
                          ELSE Put(Put(patient, "PreferredDoctor", Strip(parts[1])),
                                   "PreferredLocation", Strip(parts[2]))
            /\ messages' = << User, Assistant("ask_insurance", <<>>) >>
            /\ step' = "insurance"
       ELSE /\ messages' = messages \o << User, Assistant("error_preferences", <<>>) >>
            /\ UNCHANGED <<patient, step>>
    /\ UNCHANGED <<slots_view, use_langgraph, parked, fileVars, ret, pipeVars>>

\* Step 3a: preferences (app.py:175-196)
Preferences(p) ==
    LET parts == Split(p, ",")
        any   == Lower(Strip(p)) = s_any
    IN
    /\ ManualChain
    /\ step = "preferences"
    /\ Turns < MaxTurns
    /\ hist' = Follow(p, 0)
    /\ df' = Load(file)
    /\ IF any \/ Len(parts) = 2
       THEN /\ patient' = IF any
                          THEN Put(Put(patient, "PreferredDoctor", None),
                                   "PreferredLocation", None)
                          ELSE Put(Put(patient, "PreferredDoctor", Strip(parts[1])),
                                   "PreferredLocation", Strip(parts[2]))
            /\ messages' = messages \o << User, Assistant("ask_insurance", <<>>) >>
            /\ step' = "insurance"
       ELSE /\ messages' = messages \o << User, Assistant("error_preferences", <<>>) >>
            /\ UNCHANGED <<patient, step>>
    /\ UNCHANGED <<slots_view, use_langgraph, parked, fileVars, ret, pipeVars>>

\* Step 3b: insurance (app.py:199-225)
Insurance(p) ==
    LET parts == Split(p, ",") IN
    /\ ManualChain
    /\ step = "insurance"
    /\ Turns < MaxTurns
    /\ hist' = Follow(p, 0)
    /\ df' = Load(file)
    /\ IF Len(parts) = 3
       THEN /\ patient' = Put(Put(Put(patient, "InsuranceCarrier", Strip(parts[1])),
                                  "MemberID", Strip(parts[2])),
                              "GroupNumber", Strip(parts[3]))
            /\ messages' = messages \o
                  << User,
                     Assistant("insurance_recorded", StripAll(parts)),
                     Assistant("ask_contact", <<>>) >>
            /\ step' = "contact"
       ELSE /\ messages' = messages \o << User, Assistant("error_insurance", <<>>) >>
            /\ UNCHANGED <<patient, step>>
    /\ UNCHANGED <<slots_view, use_langgraph, parked, fileVars, ret, pipeVars>>

\* C3 mutant: the contact handler stores the first field before it validates
Contact_StoreFirst(p) ==
    LET parts == Split(p, ",") IN
    /\ ManualChain
    /\ step = "contact"
    /\ Turns < MaxTurns
    /\ hist' = Follow(p, 0)
    /\ df' = Load(file)
    /\ IF Len(parts) = 2
       THEN /\ patient' = Put(Put(patient, "Email", Strip(parts[1])),
                              "Phone", Strip(parts[2]))
            /\ messages' = messages \o
                  << User, Assistant("contact_saved", StripAll(parts)) >>
            /\ step' = "scheduling"
       ELSE /\ messages' = messages \o << User, Assistant("error_contact", <<>>) >>
            /\ patient' = Put(patient, "Email", Strip(parts[1]))
            /\ step' = step
    /\ UNCHANGED <<slots_view, use_langgraph, parked, fileVars, ret, pipeVars>>

\* Step 3c: contact details (app.py:228-246)
Contact(p) ==
    LET parts == Split(p, ",") IN
    /\ ManualChain
    /\ step = "contact"
    /\ Turns < MaxTurns
    /\ hist' = Follow(p, 0)
    /\ df' = Load(file)
    /\ IF Len(parts) = 2
       THEN /\ patient' = Put(Put(patient, "Email", Strip(parts[1])),
                              "Phone", Strip(parts[2]))
            /\ messages' = messages \o
                  << User, Assistant("contact_saved", StripAll(parts)) >>
            /\ step' = "scheduling"
       ELSE /\ messages' = messages \o << User, Assistant("error_contact", <<>>) >>
            /\ UNCHANGED <<patient, step>>
    /\ UNCHANGED <<slots_view, use_langgraph, parked, fileVars, ret, pipeVars>>

(***************************************************************************)
(* Notification stubs and the exporter                                     *)
(*                                                                         *)
(* A log line is [shape, recipient, message]: the parts of the f-string    *)
(* written, in order, and the values put into it.                          *)
(***************************************************************************)
MaxFault == 2   \* a turn's n-th file write may raise OSError, n in 1..MaxFault

Faults == 0..MaxFault
\* with the fault f of the turn, how many of its k writes complete
Completed(f, k) == IF f = 0 \/ f > k THEN k ELSE f - 1

\* ReminderSystem.send_reminder: the message, and the line it logs
reminder_msg(patient_name, n) ==
    IF n \in {1, 2, 3} THEN Text("reminder", <<n, patient_name>>)
    ELSE Text("unknown_reminder", <<>>)
reminder_line(patient_name, n) ==
    [shape |-> <<"timestamp", " - ", "message">>, recipient |-> None,
     message |-> reminder_msg(patient_name, n)]

\* EmailSender.send_email: the line it logs, and the status it returns
email_line(patient_email, message) ==
    [shape |-> <<"recipient", ": ", "message">>, recipient |-> patient_email,
     message |-> message]
email_status(patient_email, message) == Text("email_sent", <<patient_email, message>>)

\* SMSSender.send_sms: the line it logs, and the status it returns
sms_line(phone_number, message) ==
    [shape |-> <<"timestamp", " -> ", "recipient", ": ", "message">>,
     recipient |-> phone_number, message |-> message]
sms_status(phone_number, message) == Text("sms_sent", <<phone_number, message>>)

\* C18 mutant: the form is reported sent whether or not the file exists
send_intake_form_Always(patient_email) == Text("intake_form_sent", <<patient_email>>)

\* EmailSender.send_intake_form: found or missing
send_intake_form(patient_email) ==
    IF form_exists THEN Text("intake_form_sent", <<patient_email>>)
    ELSE Text("intake_form_not_found", <<>>)

\* C19 mutant: the exporter writes a table holding only the new record
append_appointment_Replace(table, record) == << record >>

\* C1 mutant: the exporter writes the record twice
append_appointment_Twice(table, record) == Append(Append(table, record), record)

\* AdminExporter.append_appointment: the table after the append
append_appointment(table, record) == Append(table, record)

(***************************************************************************)
(* The chat session, continued                                             *)
(***************************************************************************)

s_Doctor    == <<"D","o","c","t","o","r">>
s_Date      == <<"D","a","t","e">>
s_Time      == <<"T","i","m","e">>
s_testmail  == <<"t","e","s","t","_","p","a","t","i","e","n","t","@","e","x","a","m","p","l","e",".","c","o","m">>
s_testphone == <<"+","1","-","5","5","5","-","0","0","0","-","0","0","0","0">>
s_Patient   == <<"P","a","t","i","e","n","t">>
s_forms     == <<"f","o","r","m","s">>
s_confirm   == <<"c","o","n","f","i","r","m">>
s_reason    == <<"r","e","a","s","o","n">>
s_NA        == <<"N","A">>
s_y         == <<"y">>

\* 60 if Status == "New" else 30
\* C26 mutant: every appointment gets the short duration
Duration_Flat(p) == DurationReturning

\* 60 if patient.get("Status") == "New" else 30
Duration(p) == IF Get(p, "Status", None) = s_New THEN DurationNew ELSE DurationReturning

\* row.get(k1, row.get(k2, row.get(k3, default)))
Get3(row, k1, k2, k3, dflt) == Get(row, k1, Get(row, k2, Get(row, k3, dflt)))
DoctorOf(row) == Get3(row, "DoctorName", "Doctor", "Provider", s_Doctor)
DateOf(row)   == Get3(row, "Date", "Day", "AppointmentDate", s_Date)
TimeOf(row)   == Get3(row, "TimeSlot", "Time", "Slot", s_Time)

\* st.session_state["slots_view"]: None, or the frame shown to the user
NoView == [none |-> TRUE, rows |-> <<>>]
View(rows) == [none |-> FALSE, rows |-> rows]

\* C22 mutant: the lines are numbered by position counted from zero
SlotLines_FromZero(rows) ==
    [i \in 1..Len(rows) |-> <<i - 1, DoctorOf(rows[i].row), DateOf(rows[i].row), TimeOf(rows[i].row)>>]

\* the numbered lines of the slot list (app.py:264-270)
SlotLines(rows) ==
    [i \in 1..Len(rows) |-> <<i, DoctorOf(rows[i].row), DateOf(rows[i].row), TimeOf(rows[i].row)>>]

\* Step 4: scheduling (app.py:249-275)
Scheduling(p) ==
    LET d     == Load(file)
        slots == get_available_slots(d, DefaultLimit,
                                     Get(patient, "PreferredDoctor", None),
                                     Get(patient, "PreferredLocation", None))
    IN
    /\ ManualChain
    /\ step = "scheduling"
    /\ Turns < MaxTurns
    /\ hist' = Follow(p, 0)
    /\ df' = d
    /\ IF slots = <<>>
       THEN /\ messages' = messages \o << User, Assistant("no_slots", <<>>) >>
            /\ step' = "done"
            /\ slots_view' = slots_view
       ELSE /\ slots_view' = View(slots)
            /\ messages' = messages \o
                  << User, Assistant("slot_list", <<Duration(patient), SlotLines(slots)>>) >>
            /\ step' = "confirmation"
    /\ UNCHANGED <<patient, use_langgraph, parked, fileVars, ret, pipeVars>>

\* the record handed to exporter.append_appointment (app.py:304-317)
ExportRecord(p, email_to, phone_to, doctor, date, time_slot) ==
    [Name |-> Get(p, "Name", None), DOB |-> Get(p, "DOB", None),
     Status |-> Get(p, "Status", None),
     InsuranceCarrier |-> Get(p, "InsuranceCarrier", None),
     MemberID |-> Get(p, "MemberID", None), GroupNumber |-> Get(p, "GroupNumber", None),
     Email |-> email_to, Phone |-> phone_to,
     Doctor |-> doctor, Date |-> date, Time |-> time_slot,
     DurationMins |-> Duration(p)]

\* C17 mutant: the position is looked up in a fresh listing of the table
SelectedRow_Requeried(view, d, position) ==
    LET fresh == get_available_slots(d, DefaultLimit, None, None)
    IN  IF position <= Len(fresh) THEN fresh[position] ELSE view.rows[position]

\* selected_row = slots_view.iloc[choice] (app.py:284): the row of the
\* snapshot at the position typed; d is the table of the Scheduler
SelectedRow(view, d, position) ==
    view.rows[IF position >= 1 THEN position ELSE Len(view.rows) + position]

\* C24 mutant: the lower bound of the choice is not tested, so that 0 reads
\* the row at offset -1
ValidChoice_NoLowerBound(p, view) ==
    /\ IntOk(p)
    /\ ~view.none
    /\ IntVal(p) - 1 >= -1
    /\ IntVal(p) - 1 < Len(view.rows)

\* choice = int(prompt) - 1 parses and is an offset of the snapshot
\* (app.py:280-283)
ValidChoice(p, view) ==
    /\ IntOk(p)
    /\ ~view.none
    /\ IntVal(p) - 1 >= 0
    /\ IntVal(p) - 1 < Len(view.rows)

\* C23 mutant: the step moves on as soon as the schedule is saved
Confirmation_EarlyStep(p, fault) ==
    LET d        == Load(file)
        valid    == ValidChoice(p, slots_view)
        selected == SelectedRow(slots_view, d, IntVal(p))
        chosen   == BookedRow(d, selected.name)
        booked   == valid /\ chosen.ok
        after    == BookedFrame(d, selected.name)
        \* patient["Name"] raises KeyError before the reminder is written
        done     == IF ~booked THEN -1
                    ELSE IF "Name" \in DOMAIN patient THEN Completed(fault, 5)
                    ELSE Min(Completed(fault, 5), 2)
        doctor   == DoctorOf(chosen.row)
        date     == DateOf(chosen.row)
        time_slot == TimeOf(chosen.row)
        email_to == Get(patient, "Email", s_testmail)
        phone_to == Get(patient, "Phone", s_testphone)
        rem      == reminder_msg(patient["Name"], 1)
    IN
    /\ ManualChain
    /\ step = "confirmation"
    /\ Turns < MaxTurns
    /\ hist' = [Follow(p, fault) EXCEPT !.faulted = booked /\ done < 5,
                                        !.failed = IF booked /\ done < 5 THEN done + 1 ELSE 0,
                                        !.appends = IF done >= 2 THEN @ + 1 ELSE @]
    /\ df' = IF booked THEN after ELSE d
    /\ file' = IF done >= 1 THEN Save(after) ELSE file
    /\ exported' = IF done >= 2
                   THEN append_appointment(exported,
                            ExportRecord(patient, email_to, phone_to, doctor, date, time_slot))
                   ELSE exported
    /\ reminder_log' = IF done >= 3 THEN Append(reminder_log, reminder_line(patient["Name"], 1))
                       ELSE reminder_log
    /\ email_log' = IF done >= 4 THEN Append(email_log, email_line(email_to, rem)) ELSE email_log
    /\ sms_log' = IF done >= 5 THEN Append(sms_log, sms_line(phone_to, rem)) ELSE sms_log
    /\ messages' = messages \o << User >>
          \o (IF done >= 1 THEN << Assistant("appointment_confirmed", <<doctor, date, time_slot>>),
                                   [role |-> "assistant", content |-> send_intake_form(email_to)] >>
              ELSE <<>>)
          \o (IF done >= 3 THEN << Assistant("reminder_scheduled", <<rem>>) >> ELSE <<>>)
          \o (IF done >= 4 THEN << [role |-> "assistant", content |-> email_status(email_to, rem)] >>
              ELSE <<>>)
          \o (IF done >= 5 THEN << [role |-> "assistant", content |-> sms_status(phone_to, rem)],
                                   Assistant("ask_reminder_actions", <<>>) >>
              ELSE << Assistant("error_confirmation", <<>>) >>)
    /\ step' = IF done >= 1 THEN "reminders_action" ELSE step
    /\ UNCHANGED <<patient, slots_view, use_langgraph, parked, roster, form_exists, api_key,
                   ret, pipeVars>>

\* Step 5: confirmation (app.py:278-341). The writes of the turn, in order:
\* 1 schedule save, 2 export, 3 reminder log, 4 email log, 5 SMS log.
ConfirmationWrites == 5
Confirmation(p, fault) ==
    LET d        == Load(file)
        valid    == ValidChoice(p, slots_view)
        selected == SelectedRow(slots_view, d, IntVal(p))
        chosen   == BookedRow(d, selected.name)
        booked   == valid /\ chosen.ok
        after    == BookedFrame(d, selected.name)
        \* patient["Name"] raises KeyError before the reminder is written
        done     == IF ~booked THEN -1
                    ELSE IF "Name" \in DOMAIN patient THEN Completed(fault, 5)
                    ELSE Min(Completed(fault, 5), 2)
        doctor   == DoctorOf(chosen.row)
        date     == DateOf(chosen.row)
        time_slot == TimeOf(chosen.row)
        email_to == Get(patient, "Email", s_testmail)
        phone_to == Get(patient, "Phone", s_testphone)
        rem      == reminder_msg(patient["Name"], 1)
    IN
    /\ ManualChain
    /\ step = "confirmation"
    /\ Turns < MaxTurns
    /\ hist' = [Follow(p, fault) EXCEPT !.faulted = booked /\ done < 5,
                                        !.failed = IF booked /\ done < 5 THEN done + 1 ELSE 0,
                                        !.appends = IF done >= 2 THEN @ + 1 ELSE @]
    /\ df' = IF booked THEN after ELSE d
    /\ file' = IF done >= 1 THEN Save(after) ELSE file
    /\ exported' = IF done >= 2
                   THEN append_appointment(exported,
                            ExportRecord(patient, email_to, phone_to, doctor, date, time_slot))
                   ELSE exported
    /\ reminder_log' = IF done >= 3 THEN Append(reminder_log, reminder_line(patient["Name"], 1))
                       ELSE reminder_log
    /\ email_log' = IF done >= 4 THEN Append(email_log, email_line(email_to, rem)) ELSE email_log
    /\ sms_log' = IF done >= 5 THEN Append(sms_log, sms_line(phone_to, rem)) ELSE sms_log
    /\ messages' = messages \o << User >>
          \o (IF done >= 1 THEN << Assistant("appointment_confirmed", <<doctor, date, time_slot>>),
                                   [role |-> "assistant", content |-> send_intake_form(email_to)] >>
              ELSE <<>>)
          \o (IF done >= 3 THEN << Assistant("reminder_scheduled", <<rem>>) >> ELSE <<>>)
          \o (IF done >= 4 THEN << [role |-> "assistant", content |-> email_status(email_to, rem)] >>
              ELSE <<>>)
          \o (IF done >= 5 THEN << [role |-> "assistant", content |-> sms_status(phone_to, rem)],
                                   Assistant("ask_reminder_actions", <<>>) >>
              ELSE << Assistant("error_confirmation", <<>>) >>)
    /\ step' = IF done >= 5 THEN "reminders_action" ELSE step
    /\ UNCHANGED <<patient, slots_view, use_langgraph, parked, roster, form_exists, api_key,
                   ret, pipeVars>>

\* the key=value parser of the reminders step (app.py:347-357): kv.get(key, dflt)
\* where later pairs overwrite earlier ones
RECURSIVE KvGet(_, _, _)
KvGet(parts, key, dflt) ==
    IF parts = <<>> THEN dflt
    ELSE LET q  == parts[Len(parts)]
             kv == Split1(q, "=")
         IN IF FirstIndex(q, "=") # 0 /\ Lower(Strip(kv[1])) = key
            THEN Strip(kv[2])
            ELSE KvGet(SubSeq(parts, 1, Len(parts) - 1), key, dflt)

\* C25 mutant: any answer that is not empty counts as yes
Affirmative_Any(v) == v # <<>>

Affirmative(v) == Lower(v) \in {s_yes, s_y, s_true}

\* Step 6: reminder actions (app.py:344-386). The writes of the turn, in order:
\* 1 email, 2 SMS, 3 reminder log (reminder 2); 4 email, 5 SMS, 6 reminder log
\* (reminder 3).
RemindersAction(p, fault) ==
    LET parts     == StripAll(Split(Strip(p), ","))
        filled    == Affirmative(KvGet(parts, s_forms, <<>>))
        confirmed == Affirmative(KvGet(parts, s_confirm, <<>>))
        reason    == KvGet(parts, s_reason, s_NA)
        patient_name == Get(patient, "Name", s_Patient)
        email_to  == Get(patient, "Email", s_testmail)
        phone_to  == Get(patient, "Phone", s_testphone)
        msg2      == Text("forms_filled", <<filled>>)
        msg3      == IF confirmed THEN Text("visit_confirmed", <<>>)
                     ELSE Text("visit_not_confirmed", <<reason>>)
        done      == Completed(fault, 6)
    IN
    /\ ManualChain
    /\ step = "reminders_action"
    /\ Turns < MaxTurns
    /\ hist' = [Follow(p, fault) EXCEPT !.faulted = done < 6,
                                        !.failed = IF done < 6 THEN done + 1 ELSE 0]
    /\ df' = Load(file)
    /\ email_log' = email_log
          \o (IF done >= 1 THEN << email_line(email_to, msg2) >> ELSE <<>>)
          \o (IF done >= 4 THEN << email_line(email_to, msg3) >> ELSE <<>>)
    /\ sms_log' = sms_log
          \o (IF done >= 2 THEN << sms_line(phone_to, msg2) >> ELSE <<>>)
          \o (IF done >= 5 THEN << sms_line(phone_to, msg3) >> ELSE <<>>)
    /\ reminder_log' = reminder_log
          \o (IF done >= 3 THEN << reminder_line(patient_name, 2) >> ELSE <<>>)
          \o (IF done >= 6 THEN << reminder_line(patient_name, 3) >> ELSE <<>>)
    /\ messages' = messages \o << User, [role |-> "assistant", content |-> msg2] >>
          \o (IF done >= 3 THEN << [role |-> "assistant", content |-> msg3] >> ELSE <<>>)
          \o (IF done >= 6 THEN << Assistant("workflow_complete", <<>>) >>
              ELSE << Assistant("error_reminders", <<>>) >>)
    /\ step' = IF done >= 6 THEN "done" ELSE step
    /\ UNCHANGED <<patient, slots_view, use_langgraph, parked, file, roster, form_exists,
                   api_key, exported, ret, pipeVars>>

\* C2 mutant: an input after the end starts the conversation again
NoHandler_Restart(p) ==
    /\ ManualChain
    /\ step = "done" \/ (step = "greeting" /\ use_langgraph)
    /\ Turns < MaxTurns
    /\ hist' = Follow(p, 0)
    /\ df' = Load(file)
    /\ messages' = Append(messages, User)
    /\ step' = "greeting"
    /\ UNCHANGED <<patient, slots_view, use_langgraph, parked, fileVars, ret, pipeVars>>

\* no branch of the chain matches the step (step done): only the user message
\* is appended (app.py:90)
NoHandler(p) ==
    /\ ManualChain
    /\ step = "done" \/ (step = "greeting" /\ use_langgraph)
    /\ Turns < MaxTurns
    /\ hist' = Follow(p, 0)
    /\ df' = Load(file)
    /\ messages' = Append(messages, User)
    /\ UNCHANGED <<step, patient, slots_view, use_langgraph, parked, fileVars, ret, pipeVars>>

(***************************************************************************)
(* The pipeline (utils/agents.py)                                          *)
(*                                                                         *)
(* state is the AgentState of the run; node is the stage about to run      *)
(* ("idle" before the first run, "end" when invoke has returned). Messages *)
(* and errors are [kind, args] like the session's.                         *)
(***************************************************************************)
NoState == [patient_input |-> <<>>, patient_data |-> EmptyDict, available_slots |-> <<>>,
            selected_slot |-> NoRow, messages |-> <<>>, current_step |-> "start",
            errors |-> <<>>]

\* keys of patient_data as the language model may spell them
k_DateofBirth == <<"D","a","t","e","o","f","B","i","r","t","h">>
k_PreferredDoctor == <<"P","r","e","f","e","r","r","e","d","D","o","c","t","o","r">>
k_PreferredLocation == <<"P","r","e","f","e","r","r","e","d","L","o","c","a","t","i","o","n">>
k_Email == <<"E","m","a","i","l">>
k_Phone == <<"P","h","o","n","e">>
s_Unknown == <<"U","n","k","n","o","w","n">>
s_pipemail == <<"t","e","s","t","@","e","x","a","m","p","l","e",".","c","o","m">>
Spelling == [Name |-> s_Name, DOB |-> s_DOB, DateofBirth |-> k_DateofBirth,
             PreferredDoctor |-> k_PreferredDoctor,
             PreferredLocation |-> k_PreferredLocation,
             Email |-> k_Email, Phone |-> k_Phone]
\* the dict key a text is; texts outside the table share one key
KeyNamed(t) == IF \E k \in DOMAIN Spelling : Spelling[k] = t
               THEN CHOOSE k \in DOMAIN Spelling : Spelling[k] = t
               ELSE "other"

\* _parse_llm_response: "key: value" lines; blanks are taken out of the key;
\* empty values and "None" are left out
RECURSIVE ParseLines(_, _)
ParseLines(lines, data) ==
    IF lines = <<>> THEN data
    ELSE LET line  == Head(lines)
             kv    == Split1(line, ":")
             key   == SelectSeq(Strip(kv[1]), LAMBDA c : c # " ")
             value == Strip(kv[2])
         IN  IF FirstIndex(line, ":") # 0 /\ value # <<>> /\ value # <<"N","o","n","e">>
             THEN ParseLines(Tail(lines), Put(data, KeyNamed(key), value))
             ELSE ParseLines(Tail(lines), data)
parse_llm_response(response) == ParseLines(Split(response, "\n"), EmptyDict)

\* C10 mutant: the group number is taken from a sixth field on
basic_parse_patient_input_Six(input_text) ==
    LET parts == StripAll(Split(input_text, ","))
        d2 == IF Len(parts) >= 2
              THEN Put(Put(EmptyDict, "Name", parts[1]), "DOB", parts[2])
              ELSE EmptyDict
        d4 == IF Len(parts) >= 4
              THEN Put(Put(d2, "InsuranceCarrier", parts[3]), "MemberID", parts[4])
              ELSE d2
    IN  IF Len(parts) >= 6 THEN Put(d4, "GroupNumber", parts[5]) ELSE d4

\* _basic_parse_patient_input: the positional fallback parser
basic_parse_patient_input(input_text) ==
    LET parts == StripAll(Split(input_text, ","))
        d2 == IF Len(parts) >= 2
              THEN Put(Put(EmptyDict, "Name", parts[1]), "DOB", parts[2])
              ELSE EmptyDict
        d4 == IF Len(parts) >= 4
              THEN Put(Put(d2, "InsuranceCarrier", parts[3]), "MemberID", parts[4])
              ELSE d2
    IN  IF Len(parts) >= 5 THEN Put(d4, "GroupNumber", parts[5]) ELSE d4

\* what the language model may answer, or its call raising
reply_dob == <<"N","a","m","e",":"," ","A","l","\n","D","O","B",":"," ","1","9","9","0","-","0","5","-","1","4","\n","P","r","e","f","e","r","r","e","d"," ","D","o","c","t","o","r",":"," ","Z","e","d","\n","E","m","a","i","l",":"," ","N","o","n","e">>
reply_birth == <<"N","a","m","e",":"," ","B","o","\n","D","a","t","e"," ","o","f"," ","B","i","r","t","h",":"," ","2","0","0","1","-","0","2","-","0","3","\n","P","h","o","n","e",":">>
LLMRaises == <<"<raise>">>
NoReply   == <<"<no call>">>
reply_prefs == <<"N","a","m","e",":"," ","A","l","\n","D","O","B",":"," ","1","9","9","0","-","0","5","-","1","4","\n","P","r","e","f","e","r","r","e","d"," ","D","o","c","t","o","r",":"," ","d","r"," ","b","\n","P","r","e","f","e","r","r","e","d"," ","L","o","c","a","t","i","o","n",":"," ","S">>
Replies   == {reply_dob, reply_birth, reply_prefs, LLMRaises, NoReply}

\* what is passed to process_patient_request
in_seven == <<"A","l",","," ","1","9","9","0","-","0","5","-","1","4",","," ","C","i","g","n","a",","," ","M","1",","," ","G","1",","," ","a","@","b",".","c",","," ","5","5","5">>
in_five == <<"B","o",","," ","2","0","0","1","-","0","2","-","0","3",","," ","A","e","t","n","a",","," ","M","2",","," ","G","1">>
in_four == <<"B","o",","," ","2","0","0","1","-","0","2","-","0","3",","," ","A","e","t","n","a",","," ","M","2">>
in_three == <<"A","l",","," ","1","9","9","0","-","0","5","-","1","4",","," ","C","i","g","n","a">>
in_two == <<"A","l",","," ","1","9","9","0","-","0","5","-","1","4">>
in_hello == <<"h","e","l","l","o">>
PipeInputs == {in_seven, in_five, in_four, in_three, in_two, in_hello, <<>>}

\* what a stage reads and writes: the AgentState, the orchestrator's table,
\* the files, and whether a file write of the run has failed
World == [state |-> state, df |-> df, file |-> file, exported |-> exported,
          reminder_log |-> reminder_log, email_log |-> email_log, sms_log |-> sms_log,
          faulted |-> FALSE, appends |-> hist.appends, failed |-> 0]

\* process_patient_request: the initial state, on an orchestrator built for
\* the request (app.py:25, test_orchestrator.py:14), whose Scheduler loads
\* the schedule file
initial_state(w, patient_input) ==
    [w EXCEPT !.state = [NoState EXCEPT !.patient_input = patient_input],
              !.df = Load(w.file)]

\* patient_agent (agents.py:89-138); reply is what llm.invoke gives
\* C37 mutant: the intake stage reports an input that gives no Name or no DOB
patient_agent_Strict(w, reply) ==
    LET input_text == w.state.patient_input
        useLLM == llm /\ input_text # <<>>
        parsed == IF useLLM THEN parse_llm_response(reply)
                  ELSE basic_parse_patient_input(input_text)
        lookup == Truthy(Get(parsed, "Name", None)) /\ Truthy(Get(parsed, "DOB", None))
        existing == find_patient(roster, parsed["Name"], parsed["DOB"])
        patient_data ==
            IF ~lookup THEN parsed
            ELSE IF Truthy(existing)
                 THEN Put(Put(parsed, "Status", StatusOf(existing)), "ExistingRecord", existing)
                 ELSE Put(parsed, "Status", StatusOf(existing))
    IN  IF (useLLM /\ reply = LLMRaises) \/ ~lookup
        THEN [w EXCEPT !.state.errors = Append(@, Text("patient_agent_error", <<>>)),
                       !.state.current_step = "error"]
        ELSE [w EXCEPT !.state.patient_data = patient_data,
                       !.state.current_step = "patient_processed",
                       !.state.messages = Append(@, Text("patient_processed",
                                              <<Get(patient_data, "Name", s_Unknown)>>))]

patient_agent(w, reply) ==
    LET input_text == w.state.patient_input
        useLLM == llm /\ input_text # <<>>
        parsed == IF useLLM THEN parse_llm_response(reply)
                  ELSE basic_parse_patient_input(input_text)
        lookup == Truthy(Get(parsed, "Name", None)) /\ Truthy(Get(parsed, "DOB", None))
        existing == find_patient(roster, parsed["Name"], parsed["DOB"])
        patient_data ==
            IF ~lookup THEN parsed
            ELSE IF Truthy(existing)
                 THEN Put(Put(parsed, "Status", StatusOf(existing)), "ExistingRecord", existing)
                 ELSE Put(parsed, "Status", StatusOf(existing))
    IN  IF useLLM /\ reply = LLMRaises
        THEN [w EXCEPT !.state.errors = Append(@, Text("patient_agent_error", <<>>)),
                       !.state.current_step = "error"]
        ELSE [w EXCEPT !.state.patient_data = patient_data,
                       !.state.current_step = "patient_processed",
                       !.state.messages = Append(@, Text("patient_processed",
                                              <<Get(patient_data, "Name", s_Unknown)>>))]

\* scheduler_agent (agents.py:140-175)
scheduler_agent(w) ==
    LET patient_data == w.state.patient_data
        slots == get_available_slots(w.df, DefaultLimit,
                                     Get(patient_data, "PreferredDoctor", None),
                                     Get(patient_data, "PreferredLocation", None))
    IN  IF slots = <<>>
        THEN [w EXCEPT !.state.errors = Append(@, Text("no_slots_found", <<>>)),
                       !.state.current_step = "error"]
        ELSE [w EXCEPT !.state.available_slots = slots,
                       !.state.current_step = "slots_available",
                       !.state.messages = Append(@, Text("slots_found",
                                              <<Len(slots), Duration(patient_data)>>))]

\* confirmation_agent (agents.py:177-211): books the first slot offered. Its
\* one file write is the save of the schedule (fault = 1: it raises).
\* C27 mutant: the stage takes the last slot of the list
FirstSlot_Last(available_slots) == available_slots[Len(available_slots)]

\* selected_slot = state["available_slots"][0]
FirstSlot(available_slots) == available_slots[1]

confirmation_agent(w, fault) ==
    LET available_slots == w.state.available_slots
        selected_slot == FirstSlot(available_slots)
        booked_slot == BookedRow(w.df, selected_slot.name)
        after  == BookedFrame(w.df, selected_slot.name)
        saved  == Completed(fault, 1) = 1
        doctor == Get(booked_slot.row, "DoctorName", Get(booked_slot.row, "Doctor", s_Doctor))
        date   == Get(booked_slot.row, "Date", Get(booked_slot.row, "Day", s_Date))
        time_slot == Get(booked_slot.row, "TimeSlot", Get(booked_slot.row, "Time", s_Time))
    IN  IF available_slots = <<>>
        THEN [w EXCEPT !.state.errors = Append(@, Text("no_slots_to_confirm", <<>>)),
                       !.state.current_step = "error"]
        ELSE IF ~booked_slot.ok
        THEN [w EXCEPT !.state.errors = Append(@, Text("failed_to_book", <<>>)),
                       !.state.current_step = "error"]
        ELSE IF ~saved
        THEN [w EXCEPT !.df = after, !.faulted = TRUE, !.failed = 1,
                       !.state.errors = Append(@, Text("confirmation_agent_error", <<>>)),
                       !.state.current_step = "error"]
        ELSE [w EXCEPT !.df = after, !.file = Save(after),
                       !.state.selected_slot = booked_slot,
                       !.state.current_step = "appointment_booked",
                       !.state.messages = Append(@, Text("appointment_confirmed",
                                              <<doctor, date, time_slot>>))]

\* C29 mutant: a failed stage takes back what it had written
communication_agent_Undoing(w, fault) ==
    LET patient_data == w.state.patient_data
        selected_slot == w.state.selected_slot.row
        email == Get(patient_data, "Email", s_pipemail)
        phone == Get(patient_data, "Phone", s_testphone)
        patient_name == Get(patient_data, "Name", s_Patient)
        rem  == reminder_msg(patient_name, 1)
        done == Completed(fault, 4)
        record == ExportRecord(patient_data, email, phone,
                               Get(selected_slot, "DoctorName", s_Doctor),
                               Get(selected_slot, "Date", s_Date),
                               Get(selected_slot, "TimeSlot", s_Time))
        sent == [w EXCEPT
                   !.state.messages = Append(@, send_intake_form(email)),
                   !.exported = IF done >= 1 THEN append_appointment(@, record) ELSE @,
                   !.appends = IF done >= 1 THEN @ + 1 ELSE @,
                   !.reminder_log = IF done >= 2
                                    THEN Append(@, reminder_line(patient_name, 1)) ELSE @,
                   !.email_log = IF done >= 3 THEN Append(@, email_line(email, rem)) ELSE @,
                   !.sms_log = IF done >= 4 THEN Append(@, sms_line(phone, rem)) ELSE @]
    IN  IF done >= 4
        THEN [sent EXCEPT !.state.messages = Append(@, Text("communications_sent", <<>>)),
                          !.state.current_step = "workflow_complete"]
        ELSE [w EXCEPT !.faulted = TRUE, !.failed = done + 1,
                          !.state.errors = Append(@, Text("communication_agent_error", <<>>)),
                          !.state.current_step = "error"]

\* communication_agent (agents.py:213-256). Its file writes, in order:
\* 1 export, 2 reminder log, 3 email log, 4 SMS log.
CommunicationWrites == 4
communication_agent(w, fault) ==
    LET patient_data == w.state.patient_data
        selected_slot == w.state.selected_slot.row
        email == Get(patient_data, "Email", s_pipemail)
        phone == Get(patient_data, "Phone", s_testphone)
        patient_name == Get(patient_data, "Name", s_Patient)
        rem  == reminder_msg(patient_name, 1)
        done == Completed(fault, 4)
        record == ExportRecord(patient_data, email, phone,
                               Get(selected_slot, "DoctorName", s_Doctor),
                               Get(selected_slot, "Date", s_Date),
                               Get(selected_slot, "TimeSlot", s_Time))
        sent == [w EXCEPT
                   !.state.messages = Append(@, send_intake_form(email)),
                   !.exported = IF done >= 1 THEN append_appointment(@, record) ELSE @,
                   !.appends = IF done >= 1 THEN @ + 1 ELSE @,
                   !.reminder_log = IF done >= 2
                                    THEN Append(@, reminder_line(patient_name, 1)) ELSE @,
                   !.email_log = IF done >= 3 THEN Append(@, email_line(email, rem)) ELSE @,
                   !.sms_log = IF done >= 4 THEN Append(@, sms_line(phone, rem)) ELSE @]
    IN  IF done >= 4
        THEN [sent EXCEPT !.state.messages = Append(@, Text("communications_sent", <<>>)),
                          !.state.current_step = "workflow_complete"]
        ELSE [sent EXCEPT !.faulted = TRUE, !.failed = done + 1,
                          !.state.errors = Append(@, Text("communication_agent_error", <<>>)),
                          !.state.current_step = "error"]

\* C28 mutant: the handler reports the errors and leaves the step as it found it
error_handler_StepKept(w) ==
    [w EXCEPT !.state.messages = Append(@, Text("errors_encountered", w.state.errors))]

\* error_handler (agents.py:258-263)
error_handler(w) ==
    [w EXCEPT !.state.messages = Append(@, Text("errors_encountered", w.state.errors)),
              !.state.current_step = "error_handled"]

\* C12 mutant: the routes never look at the error list
Route_Never(w, next) == next

\* _route_after_patient / _scheduler / _confirmation
Route(w, next) == IF w.state.errors # <<>> THEN "error_handler" ELSE next

\* the variables a stage leaves behind
Adopt(w) ==
    /\ state' = w.state
    /\ df' = w.df
    /\ file' = w.file
    /\ exported' = w.exported
    /\ reminder_log' = w.reminder_log
    /\ email_log' = w.email_log
    /\ sms_log' = w.sms_log
    /\ UNCHANGED <<sessionVars, parked, roster, form_exists, api_key, ret, llm>>

\* the steps of workflow.invoke (agents.py:47-87, 308-323)
ProcessPatientRequest(patient_input) ==
    /\ node \in {"idle", "end"}
    /\ node = "idle" \/ Len(file.rows) <= MaxRows   \* one run on a longer table
    /\ \E w \in {initial_state(World, patient_input)} : Adopt(w)
    /\ node' = "patient_agent"
    /\ hist' = [hist EXCEPT !.avail = HasAvailable(file), !.faulted = FALSE, !.failed = 0]

PatientAgent(reply) ==
    /\ node = "patient_agent"
    /\ IF llm /\ state.patient_input # <<>> THEN reply # NoReply ELSE reply = NoReply
    /\ \E w \in {patient_agent(World, reply)} :
           Adopt(w) /\ node' = Route(w, "scheduler_agent")
    /\ hist' = hist

SchedulerAgent ==
    /\ node = "scheduler_agent"
    /\ \E w \in {scheduler_agent(World)} :
           Adopt(w) /\ node' = Route(w, "confirmation_agent")
    /\ hist' = hist

ConfirmationAgent(fault) ==
    /\ node = "confirmation_agent"
    /\ fault <= 1
    /\ \E w \in {confirmation_agent(World, fault)} :
           /\ Adopt(w)
           /\ node' = Route(w, "communication_agent")
           /\ hist' = [hist EXCEPT !.faulted = @ \/ w.faulted, !.failed = w.failed]

CommunicationAgent(fault) ==
    /\ node = "communication_agent"
    /\ \E w \in {communication_agent(World, fault)} :
           /\ Adopt(w)
           /\ hist' = [hist EXCEPT !.faulted = @ \/ w.faulted, !.appends = w.appends,
                                   !.failed = w.failed]
    /\ node' = "end"

ErrorHandler ==
    /\ node = "error_handler"
    /\ \E w \in {error_handler(World)} : Adopt(w)
    /\ node' = "end"
    /\ hist' = hist

\* workflow.invoke as one call: the stages in the order of the graph's edges.
\* fault counts the file writes of the whole run: 1 the schedule save,
\* 2 export, 3 reminder log, 4 email log, 5 SMS log.
AfterConfirmation(c, fault) ==
    IF Route(c, "") # "" THEN error_handler(c)
    ELSE communication_agent(c, IF fault >= 2 THEN fault - 1 ELSE 0)
AfterScheduler(s, fault) ==
    IF Route(s, "") # "" THEN error_handler(s)
    ELSE AfterConfirmation(confirmation_agent(s, IF fault = 1 THEN 1 ELSE 0), fault)
AfterPatient(p, fault) ==
    IF Route(p, "") # "" THEN error_handler(p)
    ELSE AfterScheduler(scheduler_agent(p), fault)
invoke(w, patient_input, reply, fault) ==
    AfterPatient(patient_agent(initial_state(w, patient_input), reply), fault)

(***************************************************************************)
(* The pipeline path of the chat (app.py:96-122)                           *)
(***************************************************************************)
MaxRuns == 1   \* pipeline runs of one session

\* With use_langgraph and OPENAI_API_KEY the turn is one pipeline run: its
\* messages, then its errors joined in one message, go to the transcript and
\* the step becomes done; st.experimental_rerun() ends the script run, so the
\* manual chain is not entered. The stages catch what they raise, so the
\* except branch (app.py:113-120) is not taken.
LangGraphTurn(p, reply, fault) ==
    /\ use_langgraph /\ api_key
    /\ Turns < MaxTurns
    /\ Turns < MaxRuns
    /\ IF llm /\ p # <<>> THEN reply # NoReply ELSE reply = NoReply
    /\ \E result \in {invoke(World, p, reply, fault)} :
            LET shown  == [i \in 1..Len(result.state.messages) |->
                              [role |-> "assistant", content |-> result.state.messages[i]]]
                error_msg == IF result.state.errors # <<>>
                             THEN << Assistant("multi_agent_errors", result.state.errors) >>
                             ELSE <<>>
            IN
            /\ messages' = messages \o << User >> \o shown \o error_msg
            /\ step' = "done"
            /\ state' = result.state
            /\ node' = "end"
            /\ df' = result.df
            /\ file' = result.file
            /\ exported' = result.exported
            /\ reminder_log' = result.reminder_log
            /\ email_log' = result.email_log
            /\ sms_log' = result.sms_log
            /\ hist' = [Follow(p, fault) EXCEPT !.faulted = result.faulted,
                                                !.appends = result.appends,
                                                !.failed = result.failed]
            /\ UNCHANGED <<patient, slots_view, use_langgraph, parked, roster, form_exists, api_key,
                           ret, llm>>

(***************************************************************************)
(* Specification of the chat session                                       *)
(***************************************************************************)
\* a session on its first load, with the Scheduler of its script run
Fresh(f) == [step |-> "greeting", patient |-> EmptyDict, messages |-> << Greeting >>,
             slots_view |-> NoView, df |-> Load(f)]

\* the files a session may find: schedule, roster, intake form present
Worlds == { <<TableA, DefaultRoster, TRUE>>, <<TableB, DefaultRoster, FALSE>>,
            <<TableC, EmptyRoster, TRUE>>, <<TableFull, DefaultRoster, TRUE>> }

Init ==
    /\ step = "greeting"
    /\ patient = EmptyDict
    /\ messages = << Greeting >>
    /\ slots_view = NoView
    /\ api_key \in BOOLEAN
    /\ use_langgraph = api_key
    /\ \E w \in Worlds : file = w[1] /\ roster = w[2] /\ form_exists = w[3]
    /\ exported = <<>>
    /\ reminder_log = <<>>
    /\ email_log = <<>>
    /\ sms_log = <<>>
    /\ df = Load(file)
    /\ ret = NoCall
    /\ hist = [NoHist EXCEPT !.script = IF HasAvailable(file) /\ ~use_langgraph THEN 0 ELSE -1]
    /\ llm \in (IF api_key THEN BOOLEAN ELSE {FALSE})
    /\ state = NoState
    /\ node = "idle"
    /\ parked = Fresh(file)

Next ==
    \/ \E p \in Inputs : Lookup(p)
    \/ \E p \in Inputs : Preferences(p)
    \/ \E p \in Inputs : Insurance(p)
    \/ \E p \in Inputs : Contact(p)
    \/ \E p \in Inputs : Scheduling(p)
    \/ \E p \in Inputs, fault \in Faults : Confirmation(p, fault)
    \/ \E p \in Inputs, fault \in Faults : RemindersAction(p, fault)
    \/ \E p \in Inputs : NoHandler(p)
    \/ \E p \in Inputs, reply \in Replies, fault \in Faults : LangGraphTurn(p, reply, fault)

Spec == Init /\ [][Next]_vars

(***************************************************************************)
(* Specification of one Scheduler used directly: any table, any calls      *)
(***************************************************************************)
\* everything but the Scheduler, its file and the call record is at rest
AtRest ==
    /\ step = "greeting"
    /\ patient = EmptyDict
    /\ messages = << Greeting >>
    /\ slots_view = NoView
    /\ api_key = FALSE
    /\ use_langgraph = FALSE
    /\ form_exists = TRUE
    /\ exported = <<>>
    /\ reminder_log = <<>>
    /\ email_log = <<>>
    /\ sms_log = <<>>
    /\ ret = NoCall
    /\ hist = NoHist
    /\ llm = FALSE
    /\ state = NoState
    /\ node = "idle"

InitSched ==
    /\ AtRest
    /\ file \in Tables
    /\ df = Load(file)
    /\ roster = DefaultRoster
    /\ parked = Fresh(file)

NextSched ==
    \/ \E limit \in 0..MaxLimit, filter \in Filters :
           GetAvailableSlots(limit, filter[1], filter[2])
    \/ \E row_index \in -1..MaxRows : BookSlotByRowIndex(row_index)

SpecSched == InitSched /\ [][NextSched]_vars

(***************************************************************************)
(* Specification of PatientLookup used directly: any roster, any lookups,  *)
(* and the office editing the roster file between them                     *)
(***************************************************************************)
Names == {s_AL, s_Bo, <<>>}
Dobs  == {s_dob1b, s_dob1short, s_dob2}

\* C9 mutant: the lookup takes the row it found off the roster
FindPatient_Consuming(name, dob) ==
    /\ ret' = [NoCall EXCEPT !.op = "find_patient", !.args = <<name, dob>>,
                             !.text = find_patient(roster, name, dob)]
    /\ hist' = [hist EXCEPT !.prev = ret]
    /\ roster' = [roster EXCEPT !.rows =
                     SelectSeq(@, LAMBDA row : row \notin
                         {Matches(roster, name, dob)[i] :
                              i \in 1..Len(Matches(roster, name, dob))})]
    /\ UNCHANGED <<df, sessionVars, parked, file, form_exists, api_key, exported,
                   reminder_log, email_log, sms_log, pipeVars>>

\* response = patient_lookup.find_patient(name, dob)
FindPatient(name, dob) ==
    /\ ret' = [NoCall EXCEPT !.op = "find_patient", !.args = <<name, dob>>,
                             !.text = find_patient(roster, name, dob)]
    /\ hist' = [hist EXCEPT !.prev = ret]
    /\ UNCHANGED <<df, sessionVars, parked, fileVars, pipeVars>>

\* the environment replaces the roster file; earlier results say nothing
\* about the new file
RosterWrite(r) ==
    /\ r # roster
    /\ roster' = r
    /\ ret' = NoCall
    /\ hist' = [hist EXCEPT !.prev = NoCall]
    /\ UNCHANGED <<df, sessionVars, parked, file, form_exists, api_key, exported,
                   reminder_log, email_log, sms_log, pipeVars>>

InitLookup ==
    /\ AtRest
    /\ file = TableA
    /\ df = Load(file)
    /\ roster \in Rosters
    /\ parked = Fresh(file)

NextLookup ==
    \/ \E name \in Names, dob \in Dobs : FindPatient(name, dob)
    \/ \E r \in Rosters : RosterWrite(r)

SpecLookup == InitLookup /\ [][NextLookup]_vars

(***************************************************************************)
(* Specification of the pipeline: runs of process_patient_request, with or *)
(* without a language model                                                *)
(***************************************************************************)
\* a schedule with one more available row than a slot query returns
TableLong == Frame(ColumnsA, {}, [i \in 1..(DefaultLimit + 1) |-> IF i % 2 = 1 THEN A1 ELSE A3])
PipeWorlds == Worlds \cup { <<TableLong, DefaultRoster, TRUE>> }

InitPipe ==
    /\ step = "greeting"
    /\ patient = EmptyDict
    /\ messages = << Greeting >>
    /\ slots_view = NoView
    /\ api_key = FALSE
    /\ use_langgraph = FALSE
    /\ \E w \in PipeWorlds : file = w[1] /\ roster = w[2] /\ form_exists = w[3]
    /\ exported = <<>>
    /\ reminder_log = <<>>
    /\ email_log = <<>>
    /\ sms_log = <<>>
    /\ df = Load(file)
    /\ ret = NoCall
    /\ hist = NoHist
    /\ llm \in BOOLEAN
    /\ state = NoState
    /\ node = "idle"
    /\ parked = Fresh(file)

NextPipe ==
    \/ \E patient_input \in PipeInputs : ProcessPatientRequest(patient_input)
    \/ \E reply \in Replies : PatientAgent(reply)
    \/ SchedulerAgent
    \/ \E fault \in Faults : ConfirmationAgent(fault)
    \/ \E fault \in 0..CommunicationWrites : CommunicationAgent(fault)
    \/ ErrorHandler

SpecPipe == InitPipe /\ [][NextPipe]_vars

(***************************************************************************)
(* Specification of two browser sessions on the same files                 *)
(*                                                                         *)
(* Streamlit keeps one st.session_state per browser session and runs the   *)
(* script once per input; every run builds its own Scheduler from the      *)
(* schedule file (app.py:18). The turns of the two sessions interleave:    *)
(* one session is the running one, the other is parked, and Switch hands   *)
(* the turn over. Both users answer the questions before the slot list in  *)
(* the expected shape, and every file write succeeds.                      *)
(***************************************************************************)
\* the session that runs is parked and the parked one runs
Switch ==
    /\ parked # [step |-> step, patient |-> patient, messages |-> messages,
                 slots_view |-> slots_view, df |-> df]
    /\ parked' = [step |-> step, patient |-> patient, messages |-> messages,
                  slots_view |-> slots_view, df |-> df]
    /\ step' = parked.step
    /\ patient' = parked.patient
    /\ messages' = parked.messages
    /\ slots_view' = parked.slots_view
    /\ df' = parked.df
    /\ hist' = [hist EXCEPT !.script = -1, !.malformed = FALSE, !.faulted = FALSE,
                            !.choice = 0, !.drift = FALSE, !.typed = <<>>, !.answers = <<>>, !.failed = 0]
    /\ UNCHANGED <<use_langgraph, fileVars, ret, pipeVars>>

TwoInputs == {in_al, in_any, in_prefs, in_ins, in_1, in_2, in_0}
Sensible(p) == step = "confirmation" \/ ~Malformed(p)

InitTwo ==
    /\ step = "greeting"
    /\ patient = EmptyDict
    /\ messages = << Greeting >>
    /\ slots_view = NoView
    /\ api_key = FALSE
    /\ use_langgraph = FALSE
    /\ file \in {TableA, TableC}
    /\ roster = DefaultRoster
    /\ form_exists = TRUE
    /\ exported = <<>>
    /\ reminder_log = <<>>
    /\ email_log = <<>>
    /\ sms_log = <<>>
    /\ df = Load(file)
    /\ ret = NoCall
    /\ hist = NoHist
    /\ llm = FALSE
    /\ state = NoState
    /\ node = "idle"
    /\ parked = Fresh(file)

NextTwo ==
    \/ \E p \in TwoInputs : Sensible(p) /\ Lookup(p)
    \/ \E p \in TwoInputs : Sensible(p) /\ Preferences(p)
    \/ \E p \in TwoInputs : Sensible(p) /\ Insurance(p)
    \/ \E p \in TwoInputs : Sensible(p) /\ Contact(p)
    \/ \E p \in TwoInputs : Scheduling(p)
    \/ \E p \in TwoInputs : Confirmation(p, 0)
    \/ \E p \in TwoInputs : RemindersAction(p, 0)
    \/ \E p \in TwoInputs : NoHandler(p)
    \/ Switch

SpecTwo == InitTwo /\ [][NextTwo]_vars

(***************************************************************************)
(* The confirmation step on its own: a session that has answered every     *)
(* earlier step (a name and date, "any", the insurance, the contact, any    *)
(* input for the slot list) takes confirmation turns in which any of the    *)
(* five writes may raise.                                                  *)
(***************************************************************************)
AtConfirmation(f, r) ==
    LET response == find_patient(r, s_Al, s_dob1)
        who == [Name |-> s_Al, DOB |-> s_dob1, Status |-> StatusOf(response),
                PreferredDoctor |-> None, PreferredLocation |-> None,
                InsuranceCarrier |-> s_Cigna, MemberID |-> s_M1, GroupNumber |-> s_G1,
                Email |-> Strip(s_dra), Phone |-> s_N]
        slots == get_available_slots(Load(f), DefaultLimit, None, None)
    IN  [step |-> "confirmation",
         patient |-> who,
         messages |-> << Greeting, User,
                         IF Truthy(response) THEN Assistant("found_returning", <<response>>)
                                             ELSE Assistant("new_patient", <<s_Al>>),
                         Assistant("ask_preferences", <<>>),
                         User, Assistant("ask_insurance", <<>>),
                         User, Assistant("insurance_recorded", <<s_Cigna, s_M1, s_G1>>),
                         Assistant("ask_contact", <<>>),
                         User, Assistant("contact_saved", <<Strip(s_dra), s_N>>),
                         User, Assistant("slot_list", <<Duration(who), SlotLines(slots)>>) >>,
         slots_view |-> View(slots),
         df |-> Load(f)]

InitConfirm ==
    /\ \E w \in Worlds : /\ HasAvailable(w[1])
                         /\ file = w[1] /\ roster = w[2] /\ form_exists = w[3]
    /\ exported = <<>>
    /\ reminder_log = <<>>
    /\ email_log = <<>>
    /\ sms_log = <<>>
    /\ ret = NoCall
    /\ llm = FALSE
    /\ state = NoState
    /\ node = "idle"
    /\ \E s \in {AtConfirmation(file, roster)} :
          /\ step = s.step
          /\ patient = s.patient
          /\ messages = s.messages
          /\ slots_view = s.slots_view
          /\ df = s.df
    /\ use_langgraph = FALSE
    /\ api_key = FALSE
    /\ hist = [NoHist EXCEPT !.script = 5]
    /\ parked = Fresh(file)

NextConfirm ==
    \E p \in Inputs, fault \in 0..ConfirmationWrites : Confirmation(p, fault)

SpecConfirm == InitConfirm /\ [][NextConfirm]_vars

(***************************************************************************)
(* Specification of two Scheduler instances on one schedule file           *)
(*                                                                         *)
(* Both are built from the same file (the module-level scheduler of two    *)
(* script runs, or the scheduler and the orchestrator's own of one run:    *)
(* app.py:18, 25). df is the instance the next call is made on, parked.df  *)
(* the other; a later script run builds a new instance from the file.      *)
(***************************************************************************)
\* scheduler = Scheduler("Data/doctor_schedule.xlsx") of a later script run
NewScheduler ==
    /\ df # Load(file)
    /\ df' = Load(file)
    /\ ret' = NoCall
    /\ UNCHANGED <<hist, sessionVars, parked, fileVars, pipeVars>>

InitShared ==
    /\ AtRest
    /\ file \in {TableA, TableB, TableC}
    /\ df = Load(file)
    /\ roster = DefaultRoster
    /\ parked = Fresh(file)

NextShared ==
    \/ \E limit \in 0..MaxLimit : GetAvailableSlots(limit, None, None)
    \/ \E row_index \in -1..MaxRows : BookSlotByRowIndex(row_index)
    \/ NewScheduler
    \/ Switch

SpecShared == InitShared /\ [][NextShared]_vars

(***************************************************************************)
(* Properties of the Scheduler (checked under SpecSched)                   *)
(***************************************************************************)
\* the last call was get_available_slots; its arguments and its result
Listed    == ret.op = "get_available_slots"
ListedLabels == {ret.rows[i].name : i \in 1..Len(ret.rows)}

\* a cell compared the way the spec compares: trimmed, case ignored
Norm(t) == Lower(Strip(t))

\* the availability of a row as the spec reads it: the Status cell, or the
\* Available cell when there is no Status column, says "available" or one of
\* its synonyms
Offerable(f, cells) ==
    LET col == IF "Status" \in Cols(f) THEN "Status" ELSE "Available"
    IN  Norm(cells[col]) \in {s_available, s_yes, s_true, s_1}

\* the filter test of one row: a filter that is given (not None, not empty)
\* on a table that has the column
Given(v) == v # None /\ v # <<>>
PassesFilter(f, cells, candidates, v) ==
    LET col == find_col(Cols(f), candidates)
    IN  (Given(v) /\ col # "") => Norm(cells[col]) = Norm(v)
Passes(f, cells, doctor, location) ==
    /\ Offerable(f, cells)
    /\ PassesFilter(f, cells, DoctorCandidates, doctor)
    /\ PassesFilter(f, cells, LocationCandidates, location)

\* C4: after book_slot_by_row_index(r) has returned a row on a Scheduler, no
\* later get_available_slots on it, with any limit and filters and after any
\* further bookings, returns row r: a booked slot is never offered again.
C4_BookedNeverOffered ==
    Listed => \A l \in ListedLabels : hist.books[l] = 0

\* a listing that returns rows after a row that was available has been booked
C4_Witness ==
    /\ Listed
    /\ ret.rows # <<>>
    /\ \E l \in Labels : hist.flips[l] = 1

\* C5 (as claimed): of two book_slot_by_row_index calls on the same row the
\* second reports failure, so no row is ever returned by two bookings.
C5_SecondBookingFails ==
    \A l \in Labels : hist.books[l] <= 1

\* C6: get_available_slots returns only available rows, at most limit of
\* them, in table order: exactly the first limit rows, in table order, that
\* pass the availability and filter tests.
C6_FirstLimitInOrder ==
    Listed =>
        LET limit == ret.args[1]
            doctor == ret.args[2]
            location == ret.args[3]
            passing == {l \in Index(df) : Passes(df, Loc(df, l), doctor, location)}
        IN  /\ Len(ret.rows) <= limit
            /\ \A i \in 1..Len(ret.rows) :
                   /\ ret.rows[i].name \in Index(df)
                   /\ ret.rows[i].row = Loc(df, ret.rows[i].name)
                   /\ Offerable(df, ret.rows[i].row)
            /\ \A i, j \in 1..Len(ret.rows) : i < j => ret.rows[i].name < ret.rows[j].name
            /\ ListedLabels \subseteq passing
            /\ \A l \in passing \ ListedLabels :
                   /\ Len(ret.rows) = limit
                   /\ \A k \in ListedLabels : k < l

\* a listing cut by its limit: a passing row is left out
C6_Witness ==
    /\ Listed
    /\ ret.rows # <<>>
    /\ \E l \in Index(df) :
           /\ Passes(df, Loc(df, l), ret.args[2], ret.args[3])
           /\ l \notin ListedLabels

\* the doctor (location) of a row, None when the table has no such column
FieldOf(f, cells, candidates) ==
    LET col == find_col(Cols(f), candidates)
    IN  IF col = "" THEN None ELSE Norm(cells[col])

\* C7 (as claimed): when a doctor (location) filter is passed (a non-empty
\* text), every returned row's doctor (location) equals the filter value,
\* trimmed and case ignored.
C7_FilterAlwaysApplied ==
    Listed =>
        /\ Given(ret.args[2]) =>
               \A i \in 1..Len(ret.rows) :
                   FieldOf(df, ret.rows[i].row, DoctorCandidates) = Norm(ret.args[2])
        /\ Given(ret.args[3]) =>
               \A i \in 1..Len(ret.rows) :
                   FieldOf(df, ret.rows[i].row, LocationCandidates) = Norm(ret.args[3])

\* C7 (amended): a non-empty doctor (location) filter on a table that has a
\* doctor (location) column under one of the synonym names leaves only rows
\* whose doctor (location) equals it, trimmed and case ignored, so a doctor in
\* no row gives the empty sequence; an empty filter, or a filter on a column
\* the table does not have, is not applied.
C7_FilterAppliedWhenColumn ==
    Listed =>
        LET limit == ret.args[1]
            doctor == ret.args[2]
            location == ret.args[3]
            hasDoctor == find_col(Cols(df), DoctorCandidates) # ""
            hasLocation == find_col(Cols(df), LocationCandidates) # ""
        IN  /\ (Given(doctor) /\ hasDoctor) =>
                   /\ \A i \in 1..Len(ret.rows) :
                          FieldOf(df, ret.rows[i].row, DoctorCandidates) = Norm(doctor)
                   /\ (\A l \in Index(df) :
                          FieldOf(df, Loc(df, l), DoctorCandidates) # Norm(doctor))
                      => ret.rows = <<>>
            /\ (Given(location) /\ hasLocation) =>
                   \A i \in 1..Len(ret.rows) :
                       FieldOf(df, ret.rows[i].row, LocationCandidates) = Norm(location)
            /\ (~Given(doctor) \/ ~hasDoctor) =>
                   \A l \in Index(df) :
                       (Passes(df, Loc(df, l), None, location)
                            /\ Len(ret.rows) < limit) => l \in ListedLabels
            /\ (~Given(location) \/ ~hasLocation) =>
                   \A l \in Index(df) :
                       (Passes(df, Loc(df, l), doctor, None)
                            /\ Len(ret.rows) < limit) => l \in ListedLabels

\* a doctor filter written in another case and with blanks finds its rows
C7_Witness ==
    /\ Listed
    /\ ret.args[2] = s_dra
    /\ \E i \in 1..Len(ret.rows) : ret.rows[i].row[find_col(Cols(df), DoctorCandidates)] = s_DrA


(***************************************************************************)
(* Properties of PatientLookup (checked under SpecLookup)                  *)
(***************************************************************************)
LookedUp == ret.op = "find_patient"

\* the rows of the roster that are the person asked for: the name equal after
\* trimming and lower-casing both, the date of birth equal after trimming
Persons(r, name, dob) ==
    IF ~r.readable \/ ~({"Name", "DOB"} \subseteq r.columns) THEN {}
    ELSE {i \in 1..Len(r.rows) : /\ Norm(r.rows[i]["Name"]) = Norm(name)
                                 /\ Strip(r.rows[i]["DOB"]) = Strip(dob)}

StartsWith(t, prefix) ==
    Len(t) >= Len(prefix) /\ SubSeq(t, 1, Len(prefix)) = prefix

\* C8: find_patient(name, dob) returns a non-empty summary exactly when the
\* roster has a row of that name (trimmed, case ignored) and that date of
\* birth (trimmed); the summary is that of the first such row; for every
\* other pair, and when the roster cannot be read, it returns not-found.
C8_SummaryIffMatch ==
    LookedUp =>
        LET who == Persons(roster, ret.args[1], ret.args[2])
            first == roster.rows[CHOOSE i \in who : \A j \in who : i <= j]
        IN  /\ (who = {}) <=> (ret.text = None)
            /\ who # {} =>
                   /\ ret.text # <<>>
                   /\ StartsWith(ret.text, s_Name \o <<":", " ">> \o Strip(first["Name"])
                                           \o <<",", " ">> \o s_DOB \o <<":", " ">>
                                           \o Strip(first["DOB"]))

\* a name typed in another case and with blanks finds the first of two rows
C8_Witness ==
    /\ LookedUp
    /\ ret.text # None
    /\ ret.args[1] = s_AL
    /\ Cardinality(Persons(roster, ret.args[1], ret.args[2])) = 2

\* C9: find_patient is a pure read: two calls with the same (name, dob) and no
\* change of the roster between them return the same summary, and a call
\* changes neither the roster nor any session or schedule state.
C9_PureRead ==
    /\ [](LookedUp /\ hist.prev.op = "find_patient" /\ hist.prev.args = ret.args
            => ret.text = hist.prev.text)
    /\ [][ret'.op = "find_patient"
            => UNCHANGED <<roster, sessionVars, parked, file, df, form_exists, exported,
                           reminder_log, email_log, sms_log, pipeVars>>]_vars

\* the same lookup made twice in a row, finding the patient
C9_Witness ==
    /\ LookedUp
    /\ hist.prev.op = "find_patient"
    /\ hist.prev.args = ret.args
    /\ ret.text # None


(***************************************************************************)
(* Properties of the chat session (checked under Spec)                     *)
(***************************************************************************)
Rank(s) == CHOOSE i \in 1..Len(Steps) : Steps[i] = s
NoErrorShown == \A i \in 1..Len(messages) : ~IsError(messages[i])

\* C1: from a fresh session with an available slot (manual chain, every file
\* write succeeding), the inputs "Name, YYYY-MM-DD", "any", three insurance
\* fields, two contact fields, any input for the slot listing, "1" and
\* "forms=yes, confirm=yes, reason=NA", in this order, take the session one
\* step further each, never show an error message, and end in step done with
\* exactly one record in the appointment export.
C1_HappyPath ==
    /\ hist.script >= 0 => NoErrorShown
    /\ hist.script >= 1 => step = Steps[hist.script + 2]
    /\ hist.script = 7 => step = "done" /\ Len(exported) = 1

\* the scripted conversation has been followed to its end
C1_Witness ==
    /\ hist.script = 7
    /\ Turns = 7
    /\ Len(exported) = 1

\* C2: whatever the input, the step after a turn is the same step or a later
\* one in the order greeting, lookup, preferences, insurance, contact,
\* scheduling, confirmation, reminders_action, done.
C2_ForwardOnly ==
    [][Rank(step') >= Rank(step)]_vars

\* a session that was re-prompted on its way and went on to book its slot
C2_Witness ==
    /\ step = "reminders_action"
    /\ \E i \in 1..Len(messages) : IsError(messages[i])
    /\ exported # <<>>

\* C3: in the steps lookup, preferences, insurance and contact, an input with
\* the wrong number of comma-separated fields (in lookup also a date that is
\* no valid YYYY-MM-DD date) leaves the step as it is, appends the user's
\* message and exactly one assistant error message, and changes no field of
\* the patient record.
C3_MalformedKeepsState ==
    [][(/\ step \in {"lookup", "preferences", "insurance", "contact"}
        /\ messages' # messages
        /\ hist'.malformed)
       => /\ step' = step
          /\ patient' = patient
          /\ Len(messages') = Len(messages) + 2
          /\ SubSeq(messages', 1, Len(messages)) = messages
          /\ messages'[Len(messages) + 1] = User
          /\ IsError(messages'[Len(messages) + 2])]_vars

\* a malformed contact line has just been answered with the re-prompt
C3_Witness ==
    /\ hist.malformed
    /\ step = "contact"
    /\ IsError(messages[Len(messages)])
    /\ "Email" \notin DOMAIN patient


(***************************************************************************)
(* Properties of the pipeline (checked under SpecPipe)                     *)
(***************************************************************************)
Returned == node = "end"
Fields(t) == StripAll(Split(t, ","))

\* the messages that carry the check mark or the envelope
SuccessKinds == {"patient_processed", "appointment_confirmed", "intake_form_sent",
                 "communications_sent"}

\* C10: a pipeline run with no language model configured, an input of at
\* least five comma-separated fields and an available slot in the schedule
\* (every file write succeeding) recovers Name, DOB, InsuranceCarrier,
\* MemberID and GroupNumber from the first five fields and neither Email nor
\* Phone, and returns with no error, current_step = workflow_complete and at
\* least one success message.
C10_FallbackRun ==
    (/\ Returned
     /\ ~llm
     /\ Len(Fields(state.patient_input)) >= 5
     /\ hist.avail
     /\ ~hist.faulted)
    => LET parts == Fields(state.patient_input)
           data == state.patient_data
       IN  /\ {"Name", "DOB", "InsuranceCarrier", "MemberID", "GroupNumber"}
                  \subseteq DOMAIN data
           /\ data["Name"] = parts[1]
           /\ data["DOB"] = parts[2]
           /\ data["InsuranceCarrier"] = parts[3]
           /\ data["MemberID"] = parts[4]
           /\ data["GroupNumber"] = parts[5]
           /\ "Email" \notin DOMAIN data
           /\ "Phone" \notin DOMAIN data
           /\ state.errors = <<>>
           /\ state.current_step = "workflow_complete"
           /\ \E i \in 1..Len(state.messages) : state.messages[i].kind \in SuccessKinds

\* the run of the seven-field line has returned, a slot booked for it
C10_Witness ==
    /\ Returned
    /\ ~llm
    /\ state.patient_input = in_seven
    /\ state.selected_slot.ok
    /\ ~hist.faulted

(***************************************************************************)
(* Properties of the pipeline's error handling                             *)
(***************************************************************************)
\* C11 (as claimed): every pipeline run ends with current_step equal to
\* workflow_complete or error_handled, and a run in which a stage recorded an
\* error has passed through the error-report stage, whose message joins all
\* the recorded errors.
C11_EndsCompleteOrReported ==
    Returned =>
        /\ state.current_step \in {"workflow_complete", "error_handled"}
        /\ state.errors # <<>> =>
               \E i \in 1..Len(state.messages) :
                   /\ state.messages[i].kind = "errors_encountered"
                   /\ state.messages[i].args = state.errors

\* the edges of the graph: the stages in their order, each with its way out
\* to the error report
Edges == { <<"idle", "patient_agent">>, <<"end", "patient_agent">>,
           <<"patient_agent", "scheduler_agent">>,
           <<"scheduler_agent", "confirmation_agent">>,
           <<"confirmation_agent", "communication_agent">>,
           <<"communication_agent", "end">>,
           <<"patient_agent", "error_handler">>,
           <<"scheduler_agent", "error_handler">>,
           <<"confirmation_agent", "error_handler">>,
           <<"error_handler", "end">> }

\* C12: the stages of a run execute in the order intake, scheduling,
\* confirmation, communication, and once the error list is non-empty the only
\* step the run still takes is the error report: the table, the schedule
\* file, the export and the logs stay as they are and no slot is selected.
C12_OrderAndShortCircuit ==
    [][ /\ node' # node => <<node, node'>> \in Edges
        /\ (node \notin {"idle", "end"} /\ state.errors # <<>>) =>
               /\ node = "error_handler"
               /\ node' = "end"
               /\ UNCHANGED <<df, file, exported, reminder_log, email_log, sms_log>>
               /\ state'.selected_slot = state.selected_slot
               /\ state'.errors = state.errors
      ]_vars

\* a run has returned whose confirmation stage failed after the intake and
\* scheduling stages succeeded; nothing was sent or exported
C12_Witness ==
    /\ Returned
    /\ state.current_step = "error_handled"
    /\ state.errors = << Text("confirmation_agent_error", <<>>) >>
    /\ state.available_slots # <<>>
    /\ exported = <<>>
    /\ reminder_log = <<>>

\* the keys of the fallback parser in the order of the fields
PositionKeys == <<"Name", "DOB", "InsuranceCarrier", "MemberID", "GroupNumber">>

\* C13 (as claimed): without a language model the intake stage leaves, for
\* an input of n comma-separated fields, exactly the keys of the positions
\* k <= n set, each to field k, and neither Email nor Phone.
C13_FieldsByPosition ==
    (~llm /\ state.current_step = "patient_processed") =>
        LET parts == Fields(state.patient_input)
            data  == state.patient_data
        IN  /\ \A k \in 1..5 :
                   IF k <= Len(parts)
                   THEN PositionKeys[k] \in DOMAIN data /\ data[PositionKeys[k]] = parts[k]
                   ELSE PositionKeys[k] \notin DOMAIN data
            /\ "Email" \notin DOMAIN data
            /\ "Phone" \notin DOMAIN data

(***************************************************************************)
(* Properties of two sessions on one schedule                              *)
(***************************************************************************)
\* the step is a confirmation turn in which the user typed a position of
\* the snapshot
Chosen == parked' = parked /\ hist'.choice >= 1
Picked == slots_view.rows[hist'.choice]
SameSlot(a, b) == a.Doctor = b.Doctor /\ a.Date = b.Date /\ a.Time = b.Time

\* C14: booking does no availability or version check: a confirmation turn
\* for a position of the session's snapshot completes, with one more export
\* record and the step at reminders_action, whether or not the row is still
\* available in the schedule file; so two sessions holding the same row in
\* their snapshots both get it confirmed.
C14_ConfirmsUnchecked ==
    [][ Chosen =>
            /\ step' = "reminders_action"
            /\ Len(exported') = Len(exported) + 1
            /\ ~Mask(file', Loc(file', Picked.name))
            /\ messages'[Len(messages) + 2].content.kind = "appointment_confirmed"
      ]_vars

\* both sessions are past confirmation with the same row in their snapshots,
\* and the export holds two records for the same slot
C14_Witness ==
    /\ step = "reminders_action"
    /\ parked.step = "reminders_action"
    /\ \E i \in 1..Len(slots_view.rows), j \in 1..Len(parked.slots_view.rows) :
           slots_view.rows[i].name = parked.slots_view.rows[j].name
    /\ Len(exported) = 2
    /\ SameSlot(exported[1], exported[2])

\* the step is a book_slot_by_row_index call that returned row r
Booking(r) == hist'.books[r] = hist.books[r] + 1

\* C15: a booking writes the whole table of its Scheduler instance: after
\* it the schedule file is that instance's table, every other row as the
\* instance held it in memory, whatever another instance had written to the
\* file since this one was loaded; so a booking written in between is lost
\* and the row is offered again.
C15_WholeTableWrite ==
    [][ \A r \in Labels :
            Booking(r) =>
                /\ file' = df'
                /\ \A q \in Index(df) \ {r} : Loc(file', q) = Loc(df, q)
      ]_vars

\* a Scheduler built after both bookings offers a row whose booking had
\* been returned to a caller: the second instance's write has undone it
C15_Witness ==
    /\ Listed
    /\ df = Load(file)
    /\ \E r \in ListedLabels :
           /\ hist.books[r] >= 1
           /\ \E q \in Labels \ {r} : hist.books[q] >= 1

\* C16 (as claimed): a confirmation turn for a position of the snapshot
\* whose row is, at that moment, missing from the schedule file or no longer
\* available in it books nothing, appends the invalid-choice message and
\* leaves the step at confirmation.
C16_StaleChoiceRefused ==
    [][ (/\ Chosen
         /\ \/ Picked.name \notin Index(file)
            \/ ~Mask(file, Loc(file, Picked.name)))
        => /\ file' = file
           /\ exported' = exported
           /\ step' = "confirmation"
           /\ messages' = messages \o << User, Assistant("error_confirmation", <<>>) >>
      ]_vars

\* C17: the slot booked by a confirmation input n is the row at position n
\* of the snapshot stored by the session's last scheduling turn: that row's
\* label is the one marked in the schedule file, every other row of the
\* file stays as it was, the export record carries that row's doctor, date
\* and time, and the snapshot itself is left as it was, also when the
\* available rows of the file are no longer those of the snapshot.
C17_BooksSnapshotRow ==
    [][ Chosen =>
            LET last == exported'[Len(exported')] IN
            /\ slots_view' = slots_view
            /\ Index(file') = Index(file)
            /\ \A q \in Index(file) \ {Picked.name} : Loc(file', q) = Loc(file, q)
            /\ Loc(file', Picked.name) = Loc(BookedFrame(file, Picked.name), Picked.name)
            /\ last.Doctor = DoctorOf(Picked.row)
            /\ last.Date = DateOf(Picked.row)
            /\ last.Time = TimeOf(Picked.row)
      ]_vars

\* a session has been confirmed for position 2 of its snapshot after the
\* other session had booked the row of position 1
C17_Witness ==
    /\ step = "reminders_action"
    /\ hist.choice = 2
    /\ hist.drift
    /\ ~Mask(file, Loc(file, slots_view.rows[1].name))
    /\ exported[Len(exported)].Date = DateOf(slots_view.rows[2].row)

(***************************************************************************)
(* Properties of the notifications, the export and the transcript          *)
(***************************************************************************)
\* the step is the pipeline turn of the chat
PipelineTurn == use_langgraph /\ api_key /\ Len(messages') > Len(messages)

\* C18: a missing intake-form document does not abort the caller. With the
\* form missing and every file write succeeding, a confirmation turn for a
\* position of the snapshot shows the warning, appends the export record,
\* logs reminder 1 and moves to reminders_action; and a pipeline turn that
\* booked a slot carries the warning among its messages, appends the export
\* record, logs the reminder and ends in workflow_complete with no error.
C18_MissingFormGoesOn ==
    [][ ~form_exists =>
          /\ (Chosen /\ ~hist'.faulted) =>
                 /\ messages'[Len(messages) + 3].content = Text("intake_form_not_found", <<>>)
                 /\ Len(exported') = Len(exported) + 1
                 /\ Len(reminder_log') = Len(reminder_log) + 1
                 /\ step' = "reminders_action"
          /\ (PipelineTurn /\ state'.selected_slot.ok /\ ~hist'.faulted) =>
                 /\ \E i \in 1..Len(state'.messages) :
                        state'.messages[i].kind = "intake_form_not_found"
                 /\ Len(exported') = Len(exported) + 1
                 /\ Len(reminder_log') = Len(reminder_log) + 1
                 /\ state'.current_step = "workflow_complete"
                 /\ state'.errors = <<>>
      ]_vars

\* with the form missing, a session has been confirmed: the warning is in
\* its transcript, the slot is exported and the step is reminders_action
C18_Witness ==
    /\ ~form_exists
    /\ step = "reminders_action"
    /\ hist.choice >= 1
    /\ ~hist.faulted
    /\ Len(exported) = 1
    /\ \E i \in 1..Len(messages) :
           messages[i].content.kind = "intake_form_not_found"

\* C19: the appointment export is append-only: a step either leaves it as
\* it is or adds exactly one record at its end with every earlier record
\* unchanged and in place, and the number of its records is always the
\* number of append_appointment calls that have returned.
C19_ExportAppendOnly ==
    /\ [](Len(exported) = hist.appends)
    /\ [][ \/ exported' = exported /\ hist'.appends = hist.appends
           \/ /\ hist'.appends = hist.appends + 1
              /\ Len(exported') = Len(exported) + 1
              /\ SubSeq(exported', 1, Len(exported)) = exported
         ]_vars

\* two appointments for different slots have been exported, one after the
\* other
C19_Witness ==
    /\ hist.appends = 2
    /\ Len(exported) = 2
    /\ ~SameSlot(exported[1], exported[2])

\* C20: the transcript is ordered and append-only: a step leaves it as it
\* is, or keeps every earlier entry in place and adds the user message
\* followed by assistant messages only, in the manual chain and in the
\* pipeline turn alike.
C20_TranscriptAppendOnly ==
    [][ \/ messages' = messages
        \/ /\ Len(messages') > Len(messages)
           /\ SubSeq(messages', 1, Len(messages)) = messages
           /\ messages'[Len(messages) + 1] = User
           /\ \A i \in (Len(messages) + 2)..Len(messages') :
                  messages'[i].role = "assistant"
      ]_vars

\* a conversation of seven turns has ended, its transcript still opening
\* with the greeting and the first user message
C20_Witness ==
    /\ step = "done"
    /\ Turns = MaxTurns
    /\ messages[1] = Greeting
    /\ messages[2] = User
    /\ messages[Len(messages)].role = "assistant"

\* C21: a lookup turn on a well-formed input stores the trimmed name and the
\* date in its canonical form, sets Status to Returning exactly when the
\* roster holds a row for that name and date, to New otherwise, and moves to
\* preferences; the intake stage of the pipeline sets Status by the same rule
\* whenever it extracted both a name and a date of birth.
LookupTurn ==
    /\ parked' = parked
    /\ ManualChain
    /\ step = "lookup" \/ (step = "greeting" /\ ~use_langgraph)
    /\ hist'.typed # <<>>
    /\ messages' # messages
Known(name, dob) == Persons(roster, name, dob) # {}
C21_StatusByLookup ==
    /\ [][LookupTurn =>
            LET parts == Split(hist'.typed, ",")
                name  == Strip(parts[1])
                dob   == DateStr(Strptime(Strip(parts[2])))
            IN  /\ {"Name", "DOB", "Status"} \subseteq DOMAIN patient'
                /\ patient'["Name"] = name
                /\ patient'["DOB"] = dob
                /\ patient'["Status"] = IF Known(name, dob) THEN s_Returning ELSE s_New
                /\ step' = "preferences"]_vars
    /\ [](LET pd == state.patient_data IN
            Truthy(Get(pd, "Name", None)) /\ Truthy(Get(pd, "DOB", None)) =>
                /\ "Status" \in DOMAIN pd
                /\ pd["Status"] = IF Known(pd["Name"], pd["DOB"]) THEN s_Returning ELSE s_New)
C21_Witness ==
    /\ step = "preferences"
    /\ hist.typed = in_al
    /\ patient["Status"] = s_Returning
    /\ messages[Len(messages)].content.kind = "ask_preferences"

\* C22: a turn in step scheduling queries the table as it is on file with the
\* stored doctor and location. With no matching available row it appends the
\* no-slots message and ends in done, and no file, export or log changes;
\* otherwise the snapshot is the matching available rows in table order (at
\* most the limit), the list shows them numbered from 1 in that order, and
\* the step is confirmation. The step never stays at scheduling.
SchedulingTurn ==
    /\ parked' = parked
    /\ ManualChain
    /\ step = "scheduling"
    /\ messages' # messages
Matching(f, doctor, location) ==
    SelectSeq([i \in 1..Len(f.rows) |-> i - 1],
              LAMBDA l : Passes(f, Loc(f, l), doctor, location))
Wanted ==
    LET all == Matching(file, Get(patient, "PreferredDoctor", None),
                        Get(patient, "PreferredLocation", None))
    IN  SubSeq(all, 1, Min(DefaultLimit, Len(all)))
C22_SchedulingOutcome ==
    [][SchedulingTurn =>
        LET last == messages'[Len(messages')].content IN
        /\ step' # "scheduling"
        /\ Len(messages') = Len(messages) + 2
        /\ UNCHANGED <<file, exported, reminder_log, email_log, sms_log>>
        /\ IF Wanted = <<>>
           THEN /\ last.kind = "no_slots"
                /\ step' = "done"
                /\ slots_view' = slots_view
           ELSE /\ step' = "confirmation"
                /\ ~slots_view'.none
                /\ [i \in 1..Len(slots_view'.rows) |-> slots_view'.rows[i].name] = Wanted
                /\ \A i \in 1..Len(Wanted) : slots_view'.rows[i].row = Loc(file, Wanted[i])
                /\ last.kind = "slot_list"
                /\ Len(last.args[2]) = Len(Wanted)
                /\ \A i \in 1..Len(Wanted) :
                      LET cells == Loc(file, Wanted[i]) IN
                      last.args[2][i] = <<i, DoctorOf(cells), DateOf(cells), TimeOf(cells)>>
    ]_vars
C22_Witness ==
    /\ step = "confirmation"
    /\ Len(slots_view.rows) = 1
    /\ slots_view.rows[1].name = 0
    /\ Get(patient, "PreferredDoctor", None) # None
    /\ messages[Len(messages)].content.kind = "slot_list"
    /\ Len(file.rows) = 3

\* C23: a confirmation turn for a valid choice books the selected row, sends
\* the intake form, appends one export record, then logs reminder #1 in the
\* reminder log, by email and by SMS, each at most once and later ones only
\* after earlier ones; when the n-th write raises, exactly the writes before
\* it are kept; the step becomes reminders_action exactly when the last of
\* them, the SMS, was written.
Grew(new, old) == Len(new) - Len(old)
Said == [i \in 1..(Len(messages') - Len(messages)) |->
            messages'[Len(messages) + i].content.kind]
C23_ConfirmationOrder ==
    [][Chosen =>
        LET k      == hist'.failed
            row    == Picked.name
            booked == row \in Index(file') /\ ~Mask(file', Loc(file', row))
            first  == reminder_msg(patient["Name"], 1)
            inOrder == <<"input", "appointment_confirmed",
                         IF form_exists THEN "intake_form_sent" ELSE "intake_form_not_found",
                         "reminder_scheduled", "email_sent", "sms_sent",
                         "ask_reminder_actions">>
        IN
        /\ \A g \in {Grew(exported', exported), Grew(reminder_log', reminder_log),
                     Grew(email_log', email_log), Grew(sms_log', sms_log)} : g \in {0, 1}
        /\ Grew(sms_log', sms_log) = 1 => Grew(email_log', email_log) = 1
        /\ Grew(email_log', email_log) = 1 => Grew(reminder_log', reminder_log) = 1
        /\ Grew(reminder_log', reminder_log) = 1 => Grew(exported', exported) = 1
        /\ Grew(exported', exported) = 1 =>
              /\ booked
              /\ Len(Said) >= 3 /\ SubSeq(Said, 1, 3) = SubSeq(inOrder, 1, 3)
        /\ k >= 1 =>
              /\ k = 1 => file' = file
              /\ k > 1 => booked
              /\ Grew(exported', exported) = (IF k > 2 THEN 1 ELSE 0)
              /\ Grew(reminder_log', reminder_log) = (IF k > 3 THEN 1 ELSE 0)
              /\ Grew(email_log', email_log) = (IF k > 4 THEN 1 ELSE 0)
              /\ Grew(sms_log', sms_log) = 0
        /\ step' \in {"confirmation", "reminders_action"}
        /\ step' = "reminders_action" <=> Grew(sms_log', sms_log) = 1
        /\ step' = "reminders_action" =>
              /\ k = 0
              /\ Said = inOrder
              /\ reminder_log'[Len(reminder_log')].message = first
              /\ email_log'[Len(email_log')].message = first
              /\ sms_log'[Len(sms_log')].message = first
              /\ exported'[Len(exported')].Name = patient["Name"]
    ]_vars
C23_Witness ==
    /\ step = "reminders_action"
    /\ hist.choice = 2
    /\ Len(exported) = 1 /\ Len(reminder_log) = 1 /\ Len(email_log) = 1 /\ Len(sms_log) = 1
    /\ ~Mask(file, Loc(file, slots_view.rows[2].name))

\* C24: a confirmation turn whose input is not an integer, or is an integer
\* outside 1..(length of the snapshot), zero and negative numbers included,
\* changes no file (no booking, no export record, no notification), appends
\* the user entry and the invalid-choice message only, and leaves the step,
\* the snapshot and the patient as they were.
InvalidChoiceTurn ==
    /\ parked' = parked
    /\ ManualChain
    /\ step = "confirmation"
    /\ messages' # messages
    /\ hist'.malformed
C24_InvalidChoiceRefused ==
    [][InvalidChoiceTurn =>
        /\ UNCHANGED <<file, exported, reminder_log, email_log, sms_log>>
        /\ df' = file
        /\ messages' = messages \o << User, Assistant("error_confirmation", <<>>) >>
        /\ step' = "confirmation"
        /\ UNCHANGED <<slots_view, patient>>
    ]_vars
C24_Witness ==
    /\ step = "confirmation"
    /\ hist.malformed
    /\ hist.failed = 0
    /\ messages[Len(messages)].content.kind = "error_confirmation"
    /\ Len(slots_view.rows) = 2
    /\ exported = <<>> /\ email_log = <<>> /\ file = df

\* C25: a reminders turn in which no write fails reads forms, confirm and
\* reason from the key=value parts of the input (other keys ignored, a missing
\* forms or confirm is "no", a missing reason is NA), sends reminder #2 and
\* reminder #3 once each (email, SMS and reminder log), with the reminder #3
\* text being the confirmed text exactly when confirm is yes and otherwise the
\* not-confirmed text with the reason, and ends in done.
RemindersTurn ==
    /\ parked' = parked
    /\ ManualChain
    /\ step = "reminders_action"
    /\ messages' # messages
    /\ hist'.failed = 0
SameText(a, b) == a.kind = b.kind /\ a.args = b.args
C25_RemindersOnceEach ==
    [][RemindersTurn =>
        LET a     == hist'.answers
            name  == Get(patient, "Name", s_Patient)
            two   == Text("forms_filled", <<a[1]>>)
            three == IF a[2] THEN Text("visit_confirmed", <<>>)
                     ELSE Text("visit_not_confirmed", <<a[3]>>)
            ne    == Len(email_log)
            ns    == Len(sms_log)
            nr    == Len(reminder_log)
        IN
        /\ step' = "done"
        /\ Grew(email_log', email_log) = 2
        /\ Grew(sms_log', sms_log) = 2
        /\ Grew(reminder_log', reminder_log) = 2
        /\ SameText(email_log'[ne + 1].message, two)
        /\ SameText(email_log'[ne + 2].message, three)
        /\ SameText(sms_log'[ns + 1].message, two)
        /\ SameText(sms_log'[ns + 2].message, three)
        /\ SameText(reminder_log'[nr + 1].message, reminder_msg(name, 2))
        /\ SameText(reminder_log'[nr + 2].message, reminder_msg(name, 3))
        /\ Said = <<"input", "forms_filled", three.kind, "workflow_complete">>
        /\ SameText(messages'[Len(messages) + 3].content, three)
        /\ UNCHANGED <<file, exported, patient>>
    ]_vars
C25_Witness ==
    /\ step = "done"
    /\ hist.answers = <<FALSE, FALSE, <<"i","l","l">> >>
    /\ Len(reminder_log) = 3
    /\ messages[Len(messages) - 1].content.kind = "visit_not_confirmed"

\* C26: the duration is a function of Status alone, 60 for New and 30 for
\* Returning: in every slot list shown by the session, in the slots message of
\* a pipeline run, and in DurationMins of every export record; neither the
\* session's patient record nor the pipeline's patient data holds a duration.
DurationFor(status, mins) ==
    /\ mins \in {DurationNew, DurationReturning}
    /\ status = s_New => mins = 60
    /\ status = s_Returning => mins = 30
DurationKeys == {"Duration", "DurationMins", "duration"}
C26_DurationByStatus ==
    /\ \A i \in 1..Len(exported) :
          DurationFor(exported[i].Status, exported[i].DurationMins)
    /\ \A i \in 1..Len(messages) :
          messages[i].content.kind = "slot_list" =>
              DurationFor(Get(patient, "Status", None), messages[i].content.args[1])
    /\ \A i \in 1..Len(state.messages) :
          state.messages[i].kind = "slots_found" =>
              DurationFor(Get(state.patient_data, "Status", None), state.messages[i].args[2])
    /\ DOMAIN patient \cap DurationKeys = {}
    /\ DOMAIN state.patient_data \cap DurationKeys = {}
C26_Witness ==
    /\ Len(exported) = 1
    /\ exported[1].Status = s_New
    /\ exported[1].DurationMins = 60
    /\ step = "reminders_action"
    /\ \E i \in 1..Len(messages) : /\ messages[i].content.kind = "slot_list"
                                   /\ messages[i].content.args[1] = 60

\* C27: the confirmation stage of a pipeline run that goes on to the
\* communication stage has booked one row, the first row of the table, in
\* table order, that was available and matched the doctor and location of the
\* patient data; every other row is as it was, and no other stage of a run
\* changes the table at all.
BooksFirst ==
    LET want == Matching(file, Get(state.patient_data, "PreferredDoctor", None),
                         Get(state.patient_data, "PreferredLocation", None))
    IN  /\ want # <<>>
        /\ state'.selected_slot.ok
        /\ state'.selected_slot.name = want[1]
        /\ Len(file'.rows) = Len(file.rows)
        /\ ~Mask(file', Loc(file', want[1]))
        /\ \A l \in Index(file) : l # want[1] => Loc(file', l) = Loc(file, l)
        /\ df' = file'
C27_BooksFirstSlot ==
    [][/\ (node = "confirmation_agent" /\ node' = "communication_agent") => BooksFirst
       /\ file' # file => node = "confirmation_agent" /\ node' = "communication_agent"
    ]_vars
C27_Witness ==
    /\ node = "communication_agent"
    /\ state.selected_slot.ok
    /\ state.selected_slot.name = 2
    /\ Get(state.patient_data, "PreferredDoctor", None) # None
    /\ Mask(file, Loc(file, 0))
    /\ ~Mask(file, Loc(file, 2))

\* C28: the scheduling stage asks for at most five slots; when no row is
\* available and matches, it records the error "No available slots found"
\* and hands over to the error handler, the run ends in error_handled with
\* that single error and no slot selected, and no stage of such a run changes
\* the schedule, the export or a notification log.
Quiet == UNCHANGED <<file, exported, reminder_log, email_log, sms_log>>
NoSlotsRun == state.errors = << Text("no_slots_found", <<>>) >>
C28_NoSlotRun ==
    /\ [][node = "scheduler_agent" =>
            LET want == Matching(file, Get(state.patient_data, "PreferredDoctor", None),
                                 Get(state.patient_data, "PreferredLocation", None))
            IN  /\ Quiet /\ df' = df
                /\ IF want = <<>>
                   THEN /\ state'.errors = Append(state.errors, Text("no_slots_found", <<>>))
                        /\ state'.available_slots = <<>>
                        /\ node' = "error_handler"
                   ELSE /\ state'.errors = state.errors
                        /\ Len(state'.available_slots) = Min(5, Len(want))
                        /\ \A i \in 1..Len(state'.available_slots) :
                              state'.available_slots[i].name = want[i]]_vars
    /\ [][(node \in {"idle", "end"}) => (Quiet /\ df' = file)]_vars
    /\ [][(node \in {"patient_agent", "error_handler"}) => (Quiet /\ df' = df)]_vars
    /\ [][node = "error_handler" /\ NoSlotsRun =>
            /\ node' = "end"
            /\ state'.current_step = "error_handled"
            /\ state'.errors = state.errors]_vars
    /\ [](node = "end" /\ state.errors # <<>> /\ state.errors[1].kind = "no_slots_found" =>
            /\ NoSlotsRun
            /\ state.current_step = "error_handled"
            /\ ~state.selected_slot.ok
            /\ state.available_slots = <<>>)
C28_Witness ==
    /\ node = "end"
    /\ NoSlotsRun
    /\ state.current_step = "error_handled"
    /\ HasAvailable(file)
    /\ exported = <<>>

\* C29: when the communication stage of a pipeline run fails at its n-th
\* write, the slot the confirmation stage booked stays booked in the table and
\* in the file, the writes before the n-th stay in the export and the logs
\* after everything that was there, no stage runs again (the run ends on that
\* step with one message of each earlier stage), and the run ends with the
\* stage's error, in step error and without the communications-sent message.
Keeps(new, old) == Len(new) >= Len(old) /\ SubSeq(new, 1, Len(old)) = old
Times(kind, msgs) == Cardinality({i \in 1..Len(msgs) : msgs[i].kind = kind})
C29_NoRollbackNoRetry ==
    [][node = "communication_agent" /\ hist'.failed >= 1 =>
        LET k   == hist'.failed
            row == state.selected_slot.name
        IN
        /\ state.selected_slot.ok
        /\ file' = file /\ df' = df
        /\ ~Mask(file', Loc(file', row)) /\ ~Mask(df', Loc(df', row))
        /\ Keeps(exported', exported) /\ Keeps(reminder_log', reminder_log)
        /\ Keeps(email_log', email_log) /\ Keeps(sms_log', sms_log)
        /\ Grew(exported', exported) = (IF k > 1 THEN 1 ELSE 0)
        /\ Grew(reminder_log', reminder_log) = (IF k > 2 THEN 1 ELSE 0)
        /\ Grew(email_log', email_log) = (IF k > 3 THEN 1 ELSE 0)
        /\ Grew(sms_log', sms_log) = 0
        /\ node' = "end"
        /\ state'.selected_slot = state.selected_slot
        /\ Len(state'.errors) = 1 /\ state'.errors[1].kind = "communication_agent_error"
        /\ state'.current_step = "error"
        /\ Times("communications_sent", state'.messages) = 0
        /\ Times("patient_processed", state'.messages) = 1
        /\ Times("slots_found", state'.messages) = 1
        /\ Times("appointment_confirmed", state'.messages) = 1
    ]_vars
C29_Witness ==
    /\ node = "end"
    /\ hist.failed = 2
    /\ state.errors # <<>> /\ state.errors[1].kind = "communication_agent_error"
    /\ state.selected_slot.ok
    /\ ~Mask(file, Loc(file, state.selected_slot.name))
    /\ Len(exported) = 1 /\ reminder_log = <<>>

\* C30: book_slot_by_row_index called with a row identifier that is not in
\* the instance's table returns None and leaves both the instance's table and
\* the schedule file as they were, also when the two differ.
UnknownRowCall ==
    /\ parked' = parked
    /\ ret'.op = "book_slot_by_row_index"
    /\ ret'.args[1] \notin Index(df)
C30_UnknownRowNoWrite ==
    [][UnknownRowCall =>
        /\ ~ret'.row.ok
        /\ ret'.row = NoRow
        /\ df' = df
        /\ file' = file
        /\ hist'.books = hist.books
    ]_vars
C30_Witness ==
    /\ ret.op = "book_slot_by_row_index"
    /\ ret.args[1] = Len(df.rows)
    /\ ~ret.row.ok
    /\ df # file
    /\ HasAvailable(df)

\* C31: a call of book_slot_by_row_index(r) that returns a row changes, in the
\* instance's table, nothing but the availability cell of row r: the columns
\* and the number of rows stay, every other row and every other cell of row r
\* is as before, row r is not available afterwards, the file holds the same
\* table as the instance, and the returned row is row r as it now stands.
AvailabilityColumn(f) == IF "Status" \in Cols(f) THEN "Status" ELSE "Available"
C31_BookingFrame ==
    [][ \A r \in Labels :
            Booking(r) =>
                LET col == AvailabilityColumn(df) IN
                /\ df'.columns = df.columns
                /\ Len(df'.rows) = Len(df.rows)
                /\ \A q \in Index(df) \ {r} : Loc(df', q) = Loc(df, q)
                /\ \A c \in Cols(df) \ {col} : Loc(df', r)[c] = Loc(df, r)[c]
                /\ ~Mask(df', Loc(df', r))
                /\ file' = df'
                /\ ret'.row.ok /\ ret'.row.name = r
                /\ ret'.row.row = Loc(df', r)
                /\ ~Mask(df', ret'.row.row)
      ]_vars
C31_Witness ==
    /\ ret.op = "book_slot_by_row_index"
    /\ ret.row.ok
    /\ ret.row.name = 1
    /\ ~Mask(df, Loc(df, 1))
    /\ Mask(df, Loc(df, 0))
    /\ file = df
    /\ "Available" \in Cols(df)

(***************************************************************************)
(* Specification of the three log sinks used directly: any sequence of     *)
(* sends, each recorded with the arguments it was called with              *)
(***************************************************************************)
MaxLines == 3

LinesLogged    == Len(reminder_log) + Len(email_log) + Len(sms_log)

SendReminder(patient_name, n) ==
    /\ LinesLogged < MaxLines
    /\ reminder_log' = Append(reminder_log, reminder_line(patient_name, n))
    /\ ret' = [NoCall EXCEPT !.op = "send_reminder", !.args = <<patient_name, n>>,
                             !.text = reminder_msg(patient_name, n)]
    /\ UNCHANGED <<df, hist, sessionVars, parked, pipeVars,
                   file, roster, form_exists, api_key, exported, email_log, sms_log>>

SendSms_Crossed(phone_number, message) ==
    /\ LinesLogged < MaxLines
    /\ sms_log' = Append(sms_log, sms_line(phone_number, message))
    /\ email_log' = Append(email_log, sms_line(phone_number, message))
    /\ ret' = [NoCall EXCEPT !.op = "send_sms", !.args = <<phone_number, message>>,
                             !.text = sms_status(phone_number, message)]
    /\ UNCHANGED <<df, hist, sessionVars, parked, pipeVars,
                   file, roster, form_exists, api_key, exported, reminder_log>>

SendEmail(patient_email, message) ==
    /\ LinesLogged < MaxLines
    /\ email_log' = Append(email_log, email_line(patient_email, message))
    /\ ret' = [NoCall EXCEPT !.op = "send_email", !.args = <<patient_email, message>>,
                             !.text = email_status(patient_email, message)]
    /\ UNCHANGED <<df, hist, sessionVars, parked, pipeVars,
                   file, roster, form_exists, api_key, exported, reminder_log, sms_log>>

SendSms(phone_number, message) ==
    /\ LinesLogged < MaxLines
    /\ sms_log' = Append(sms_log, sms_line(phone_number, message))
    /\ ret' = [NoCall EXCEPT !.op = "send_sms", !.args = <<phone_number, message>>,
                             !.text = sms_status(phone_number, message)]
    /\ UNCHANGED <<df, hist, sessionVars, parked, pipeVars,
                   file, roster, form_exists, api_key, exported, reminder_log, email_log>>

NextSinks ==
    \/ \E patient_name \in {s_Al, s_Patient}, n \in 0..3 : SendReminder(patient_name, n)
    \/ \E to \in {s_testmail, s_testphone}, n \in 0..1 :
           SendEmail(to, reminder_msg(s_Al, n))
    \/ \E to \in {s_testmail, s_testphone}, n \in 0..1 :
           SendSms(to, reminder_msg(s_Al, n))

InitSinks == InitSched /\ file = TableA

SpecSinks == InitSinks /\ [][NextSinks]_vars

\* the shape the SMS sink writes
StampedShape == <<"timestamp", " -> ", "recipient", ": ", "message">>
Last(log) == log[Len(log)]
Grown(new, old) == Len(new) = Len(old) + 1 /\ SubSeq(new, 1, Len(old)) = old

\* C32 as stated: every line of each of the three logs has the shape
\* '<timestamp> -> <recipient>: <message>'.
C32_UniformLineShape ==
    \A log \in {reminder_log, email_log, sms_log} :
        \A i \in 1..Len(log) : log[i].shape = StampedShape

\* C32: one send appends exactly one line to the sink's own log and leaves the
\* other two logs alone. The SMS line is '<timestamp> -> <recipient>: <message>',
\* the email line is '<recipient>: <message>' with no timestamp, and the
\* reminder line is '<timestamp> - <message>' with no recipient, its message
\* being the fixed text of the step for the patient name given; recipient and
\* message are those of the call.
C32_OneLinePerSend ==
    [][ /\ (ret'.op = "send_sms") =>
               /\ Grown(sms_log', sms_log)
               /\ Last(sms_log').shape = StampedShape
               /\ Last(sms_log').recipient = ret'.args[1]
               /\ Last(sms_log').message = ret'.args[2]
               /\ UNCHANGED <<email_log, reminder_log>>
        /\ (ret'.op = "send_email") =>
               /\ Grown(email_log', email_log)
               /\ Last(email_log').shape = <<"recipient", ": ", "message">>
               /\ Last(email_log').recipient = ret'.args[1]
               /\ Last(email_log').message = ret'.args[2]
               /\ UNCHANGED <<sms_log, reminder_log>>
        /\ (ret'.op = "send_reminder") =>
               /\ Grown(reminder_log', reminder_log)
               /\ Last(reminder_log').shape = <<"timestamp", " - ", "message">>
               /\ Last(reminder_log').recipient = None
               /\ Last(reminder_log').message = ret'.text
               /\ ret'.text.kind = (IF ret'.args[2] \in {1, 2, 3} THEN "reminder"
                                    ELSE "unknown_reminder")
               /\ UNCHANGED <<sms_log, email_log>>
      ]_vars

C32_Witness ==
    /\ ret.op = "send_email"
    /\ Len(email_log) = 1 /\ Len(sms_log) = 1 /\ Len(reminder_log) = 1
    /\ email_log[1].shape # StampedShape
    /\ reminder_log[1].shape # StampedShape
    /\ sms_log[1].shape = StampedShape

(***************************************************************************)
(* Specification of a chat session on a schedule with more available rows  *)
(* than one slot list shows, or with none                                  *)
(***************************************************************************)
InitLong ==
    /\ step = "greeting"
    /\ patient = EmptyDict
    /\ messages = << Greeting >>
    /\ slots_view = NoView
    /\ api_key \in BOOLEAN
    /\ use_langgraph = api_key
    /\ file \in {TableLong, TableFull}
    /\ roster = DefaultRoster
    /\ form_exists = TRUE
    /\ exported = <<>>
    /\ reminder_log = <<>>
    /\ email_log = <<>>
    /\ sms_log = <<>>
    /\ df = Load(file)
    /\ ret = NoCall
    /\ hist = [NoHist EXCEPT !.script = -1]
    /\ llm \in (IF api_key THEN BOOLEAN ELSE {FALSE})
    /\ state = NoState
    /\ node = "idle"
    /\ parked = Fresh(file)

SpecLong == InitLong /\ [][Next]_vars

AtOrAfter(s) == Rank(step) >= Rank(s)
HasKeys(keys) == keys \subseteq DOMAIN patient
\* a row of the session's snapshot, available when it was listed, is no longer
\* available in the schedule file, which only this session writes
BookedHere ==
    \E i \in 1..Len(slots_view.rows) :
        /\ Mask(Load(file), slots_view.rows[i].row)
        /\ ~Mask(file, Loc(file, slots_view.rows[i].name))

\* C33: in the manual flow the collected fields match the step: Name, DOB and
\* Status are set from preferences on, the two preference fields (possibly
\* None) from insurance on, the three insurance fields from contact on, Email
\* and Phone from scheduling on; at confirmation and reminders_action there is
\* a snapshot of between 1 and 5 slots; and the step is reminders_action only
\* if this session has booked a slot.
C33_FieldsMatchStep ==
    ManualChain =>
        /\ AtOrAfter("preferences") =>
               /\ HasKeys({"Name", "DOB", "Status"})
               /\ patient["Status"] \in {s_New, s_Returning}
        /\ AtOrAfter("insurance") => HasKeys({"PreferredDoctor", "PreferredLocation"})
        /\ AtOrAfter("contact") => HasKeys({"InsuranceCarrier", "MemberID", "GroupNumber"})
        /\ AtOrAfter("scheduling") => HasKeys({"Email", "Phone"})
        /\ (step \in {"confirmation", "reminders_action"}) =>
               /\ ~slots_view.none
               /\ Len(slots_view.rows) >= 1
               /\ Len(slots_view.rows) <= DefaultLimit
        /\ (step = "reminders_action") => BookedHere

C33_Witness ==
    /\ ManualChain
    /\ step = "reminders_action"
    /\ Len(slots_view.rows) = DefaultLimit
    /\ Len(file.rows) > DefaultLimit
    /\ patient["PreferredDoctor"] = None
    /\ BookedHere

\* C34: in the manual flow done is absorbing: a user input at step done only
\* appends the user message to the transcript; the step stays done, no slot is
\* booked, no export record is appended, no notification is sent, no patient
\* field changes and no assistant message is produced.
C34_DoneAbsorbing ==
    [][ (step = "done" /\ ManualChain) =>
            /\ messages' = Append(messages, User)
            /\ step' = "done"
            /\ UNCHANGED <<patient, slots_view, file, exported,
                           reminder_log, email_log, sms_log>>
      ]_vars

C34_Witness ==
    /\ step = "done" /\ ManualChain
    /\ Len(messages) >= 3
    /\ messages[Len(messages)].role = "user"
    /\ messages[Len(messages) - 1].role = "user"
    /\ messages[Len(messages) - 2].role = "assistant"

\* C35: a confirmation turn is all-or-nothing: a turn that leaves the step at
\* confirmation (it ends with the invalid-choice re-prompt), whether the choice
\* was invalid or a write of the turn raised, changes neither the schedule
\* table nor the export table and appends no 'Appointment confirmed' message.
C35_AllOrNothing ==
    [][ (step = "confirmation" /\ step' = "confirmation") =>
            /\ file' = file
            /\ exported' = exported
            /\ \A i \in 1..Len(Said) : Said[i] # "appointment_confirmed"
      ]_vars

FirstTurn == step = "greeting" /\ ~use_langgraph
Greetings(msgs) == Len(SelectSeq(msgs, LAMBDA m : m.content.kind = "greeting"))

\* C36: the greeting step consumes no input of its own. In the manual flow the
\* first input is handled by the lookup handler in the same turn: a well-formed
\* "Name, YYYY-MM-DD" is looked up and stored and the step becomes preferences;
\* any other input gets exactly one error message and the step becomes lookup.
\* The greeting prompt is the first message, appended before any input, and it
\* is never appended again.
C36_GreetingFallsThrough ==
    /\ [][FirstTurn =>
            /\ messages = << Greeting >>
            /\ hist'.malformed =>
                  /\ step' = "lookup"
                  /\ Said = <<"input", "error_lookup">>
                  /\ patient' = patient
            /\ ~hist'.malformed =>
                  /\ step' = "preferences"
                  /\ Len(Said) = 3 /\ Said[1] = "input"
                  /\ Said[2] \in {"found_returning", "new_patient"}
                  /\ Said[3] = "ask_preferences"
                  /\ patient'["Name"] = Strip(Split(hist'.typed, ",")[1])
                  /\ patient'["Status"] \in {s_New, s_Returning}
       ]_vars
    /\ [](messages[1] = Greeting /\ Greetings(messages) = 1)

C36_Witness ==
    /\ ~use_langgraph
    /\ Turns = 2
    /\ messages[1] = Greeting
    /\ messages[3].content.kind = "error_lookup"
    /\ messages[5].content.kind = "found_returning"
    /\ step = "preferences"

\* a run whose input the fallback parser is used on and gets neither Name nor
\* DOB from: fewer than two comma-separated fields
NoNameRun ==
    /\ node # "idle"
    /\ ~llm \/ state.patient_input = <<>>
    /\ Len(Fields(state.patient_input)) < 2

\* C37: the intake stage records no error when the fallback parser extracts
\* no Name and no DOB: the patient data stays empty (no lookup result, no
\* Status) and the run goes on to scheduling; with an available slot and
\* every write succeeding it returns with workflow_complete and no error,
\* having booked a slot and appended an export record whose Name and Status
\* are None and whose duration is 30. Such a run reaches the error report
\* only for lack of a slot or for a failed confirmation save.
C37_NoNameRunGoesOn ==
    NoNameRun =>
        /\ (node # "patient_agent") =>
               /\ state.patient_data = EmptyDict
               /\ \A i \in 1..Len(state.errors) : state.errors[i].kind # "patient_agent_error"
        /\ (node = "scheduler_agent") =>
               /\ state.errors = <<>>
               /\ state.current_step = "patient_processed"
        /\ (node = "error_handler") => (~hist.avail \/ hist.faulted)
        /\ (node = "end" /\ hist.avail /\ ~hist.faulted) =>
               /\ state.current_step = "workflow_complete"
               /\ state.errors = <<>>
               /\ state.selected_slot.ok
               /\ ~Mask(file, Loc(file, state.selected_slot.name))
               /\ exported # <<>>
               /\ Last(exported).Name = None
               /\ Last(exported).DOB = None
               /\ Last(exported).Status = None
               /\ Last(exported).DurationMins = DurationReturning
               /\ reminder_log # <<>>
               /\ Last(reminder_log).message = reminder_msg(s_Patient, 1)

C37_Witness ==
    /\ NoNameRun
    /\ node = "end"
    /\ state.patient_input = in_hello
    /\ state.current_step = "workflow_complete"
    /\ state.selected_slot.ok
    /\ Len(exported) = 1
    /\ exported[1].Name = None
    /\ exported[1].DurationMins = DurationReturning

=============================================================================
